---- MODULE Spec2Model ----
(***************************************************************************)
(* Model of the workflow orchestration engine of src/workflow/server.py:   *)
(* the definition table, the condition matcher, the parameter resolver,    *)
(* the tool dispatcher, the executor (execute_workflow), the execution     *)
(* history store and the MCP tools built on them.                          *)
(*                                                                         *)
(* Python values are tagged records so that values of different Python     *)
(* types can be compared:  str, int, bool, None, list, dict.  A dict keeps *)
(* its items in insertion order, as Python's dict does.  Python strings    *)
(* are TLA+ strings, handled with Len, SubSeq and \o.                      *)
(*                                                                         *)
(* A local variable of the code, assigned once and used after, is written  *)
(*     CHOOSE val \in {body : x \in {e}} : TRUE                             *)
(* which is the value of body where x is the value of e.                   *)
(***************************************************************************)
EXTENDS Integers, Sequences, FiniteSets, TLC

(***************************************************************************)
(* Python values                                                           *)
(***************************************************************************)
None == [t |-> "none"]
VStr(s) == [t |-> "str", s |-> s]
VInt(n) == [t |-> "int", n |-> n]
VBool(b) == [t |-> "bool", b |-> b]
VList(l) == [t |-> "list", l |-> l]
VDict(items) == [t |-> "dict", items |-> items]
Item(k, v) == [k |-> k, v |-> v]
EmptyDict == VDict(<<>>)

IsStr(v) == v.t = "str"
IsDict(v) == v.t = "dict"

\* key in d
HasKey(d, k) == \E i \in 1..Len(d.items) : d.items[i].k = k

\* d.get(k, default)
DictGet(d, k, default) ==
    IF HasKey(d, k)
    THEN d.items[CHOOSE i \in 1..Len(d.items) : d.items[i].k = k].v
    ELSE default

\* d[k] = v : an existing key keeps its position, a new key goes last
DictSet(d, k, v) ==
    IF HasKey(d, k)
    THEN VDict([i \in 1..Len(d.items) |->
                 IF d.items[i].k = k THEN Item(k, v) ELSE d.items[i]])
    ELSE VDict(Append(d.items, Item(k, v)))

(***************************************************************************)
(* Python string operations                                                *)
(***************************************************************************)
\* s[i-1:j] of Python (positions from 1, both ends included, cut at the end of s)
Slice(s, i, j) ==
    IF i > j \/ i > Len(s) THEN ""
    ELSE SubSeq(s, i, IF j > Len(s) THEN Len(s) ELSE j)

CharAt(s, i) == Slice(s, i, i)

CharsOf(s) == {CharAt(s, i) : i \in 1..Len(s)}

\* sub in s
Contains(s, sub) ==
    \E i \in 1..(Len(s) - Len(sub) + 1) : SubSeq(s, i, i + Len(sub) - 1) = sub

\* s.startswith(p)
StartsWith(s, p) == Len(s) >= Len(p) /\ SubSeq(s, 1, Len(p)) = p

UpperChars == "ABCDEFGHIJKLMNOPQRSTUVWXYZ"
LowerChars == "abcdefghijklmnopqrstuvwxyz"
DigitChars == "0123456789"

UpperSet == CharsOf(UpperChars)

LowerChar(c) ==
    IF c \in UpperSet
    THEN CharAt(LowerChars, CHOOSE i \in 1..Len(UpperChars) : CharAt(UpperChars, i) = c)
    ELSE c

RECURSIVE Lower(_)
\* s.lower()
Lower(s) == IF s = "" THEN "" ELSE LowerChar(Head(s)) \o Lower(Tail(s))

\* the characters the regular expression class \w matches
WordChars == CharsOf(UpperChars) \cup CharsOf(LowerChars) \cup CharsOf(DigitChars) \cup {"_"}

\* the characters the regular expression class \s matches
SpaceChars == {" ", "\t", "\n", "\r"}

\* length of the longest prefix of s from position i made of characters of cs
RECURSIVE Span(_, _, _)
Span(s, i, cs) ==
    IF i <= Len(s) /\ CharAt(s, i) \in cs THEN 1 + Span(s, i + 1, cs) ELSE 0

\* length of the longest prefix of s from position i made of characters not in cs
RECURSIVE SpanNot(_, _, _)
SpanNot(s, i, cs) ==
    IF i <= Len(s) /\ CharAt(s, i) \notin cs THEN 1 + SpanNot(s, i + 1, cs) ELSE 0

\* s.strip(cs)
RECURSIVE Strip(_, _)
Strip(s, cs) ==
    IF s = "" THEN ""
    ELSE IF Head(s) \in cs THEN Strip(Tail(s), cs)
    ELSE IF CharAt(s, Len(s)) \in cs THEN Strip(SubSeq(s, 1, Len(s) - 1), cs)
    ELSE s

\* s.split(sep) for a one-character separator
RECURSIVE Split(_, _)
Split(s, sep) ==
    CHOOSE val \in
        {IF n = Len(s) THEN <<s>>
         ELSE <<SubSeq(s, 1, n)>> \o Split(SubSeq(s, n + 2, Len(s)), sep) :
            n \in {SpanNot(s, 1, {sep})}} : TRUE

\* s.replace(c, r) for a one-character c
RECURSIVE Replace(_, _, _)
Replace(s, c, r) ==
    IF s = "" THEN ""
    ELSE (IF Head(s) = c THEN r ELSE Head(s)) \o Replace(Tail(s), c, r)

RECURSIVE IntStr(_)
\* str(n) for n >= 0
IntStr(n) ==
    IF n < 10 THEN CharAt(DigitChars, n + 1)
    ELSE IntStr(n \div 10) \o CharAt(DigitChars, (n % 10) + 1)

RECURSIVE PyRepr(_)
RECURSIVE ReprItems(_)
RECURSIVE ReprList(_)
\* repr(v); a str is shown in single quotes (strings of the model hold no
\* quote and no backslash)
PyRepr(v) ==
    CASE v.t = "none" -> "None"
      [] v.t = "str"  -> "'" \o v.s \o "'"
      [] v.t = "int"  -> IntStr(v.n)
      [] v.t = "bool" -> IF v.b THEN "True" ELSE "False"
      [] v.t = "list" -> "[" \o ReprList(v.l) \o "]"
      [] v.t = "dict" -> "{" \o ReprItems(v.items) \o "}"
ReprItems(items) ==
    IF items = <<>> THEN ""
    ELSE "'" \o Head(items).k \o "': " \o PyRepr(Head(items).v)
         \o (IF Len(items) > 1 THEN ", " ELSE "") \o ReprItems(Tail(items))
ReprList(l) ==
    IF l = <<>> THEN ""
    ELSE PyRepr(Head(l)) \o (IF Len(l) > 1 THEN ", " ELSE "") \o ReprList(Tail(l))

\* str(v)
PyStr(v) == IF v.t = "str" THEN v.s ELSE PyRepr(v)

(***************************************************************************)
(* Regular expressions, as far as match_conditions uses them.  A LIKE      *)
(* pattern becomes a regular expression by replacing % with .* ; the       *)
(* patterns of the model are made of letters, digits, blanks, "_", "." and *)
(* "%", so the expression is a sequence of literals, "." and ".*".        *)
(***************************************************************************)
RECURSIVE RegexTokens(_)
RegexTokens(p) ==
    IF p = "" THEN <<>>
    ELSE IF StartsWith(p, ".*")
         THEN <<[k |-> "star"]>> \o RegexTokens(SubSeq(p, 3, Len(p)))
    ELSE IF Head(p) = "."
         THEN <<[k |-> "any"]>> \o RegexTokens(Tail(p))
    ELSE <<[k |-> "lit", c |-> Head(p)]>> \o RegexTokens(Tail(p))

\* the tokens match a part of s that starts at position i
RECURSIVE MatchHere(_, _, _)
MatchHere(toks, s, i) ==
    IF toks = <<>> THEN TRUE
    ELSE CASE Head(toks).k = "star" ->
                \E j \in i..(i + SpanNot(s, i, {"\n"})) :
                    MatchHere(Tail(toks), s, j)
           [] Head(toks).k = "any" ->
                /\ i <= Len(s)
                /\ CharAt(s, i) # "\n"
                /\ MatchHere(Tail(toks), s, i + 1)
           [] Head(toks).k = "lit" ->
                /\ i <= Len(s)
                /\ CharAt(s, i) = Head(toks).c
                /\ MatchHere(Tail(toks), s, i + 1)

\* re.search(pattern, s) is not None
re_search(pattern, s) ==
    \E toks \in {RegexTokens(pattern)} :
        \E i \in 1..(Len(s) + 1) : MatchHere(toks, s, i)

\* re.match(r"(\w+)\s+KEYWORD\s+<open>([^<close>]+)<close>", condition):
\* the two groups, or no match.  Every repetition is followed by a character
\* outside its class, so only the longest repetition can match.
MatchPredicate(condition, keyword, open, close) ==
    LET n1 == Span(condition, 1, WordChars)
        n2 == Span(condition, 1 + n1, SpaceChars)
        p  == 1 + n1 + n2
        kl == Len(keyword)
        n3 == Span(condition, p + kl, SpaceChars)
        q  == p + kl + n3
        n4 == SpanNot(condition, q + 1, {close})
    IN  IF /\ n1 >= 1
           /\ n2 >= 1
           /\ Slice(condition, p, p + kl - 1) = keyword
           /\ n3 >= 1
           /\ CharAt(condition, q) = open
           /\ n4 >= 1
           /\ CharAt(condition, q + 1 + n4) = close
        THEN [matched |-> TRUE,
              field |-> Slice(condition, 1, n1),
              arg |-> Slice(condition, q + 1, q + n4)]
        ELSE [matched |-> FALSE]

\* [v.strip().strip("'\"") for v in values.split(',')]
allowed_values(values) ==
    LET parts == Split(values, ",")
    IN  [i \in 1..Len(parts) |-> Strip(Strip(parts[i], SpaceChars), {"'", "\""})]

\* field_value in allowed_values: Python compares with ==, and a value that
\* is not a str equals no str
InStrList(v, l) == IsStr(v) /\ \E i \in 1..Len(l) : l[i] = v.s

\* one pass of the loop body of match_conditions:
\* "pass" (go on to the next condition), "false" (return False) or "raise"
match_condition(condition, data) ==
    IF Contains(condition, "LIKE")
    THEN CHOOSE val \in
             {IF ~m.matched THEN "raise"
              ELSE IF \E field_value \in {Lower(PyStr(DictGet(data, m.field, VStr(""))))},
                         pattern \in {Lower(Replace(m.arg, "%", ".*"))} :
                         ~re_search(pattern, field_value)
                   THEN "false" ELSE "pass" :
                 m \in {MatchPredicate(condition, "LIKE", "'", "'")}} : TRUE
    ELSE IF Contains(condition, "IN")
    THEN CHOOSE val \in
             {IF ~m.matched THEN "raise"
              ELSE IF \E field_value \in {DictGet(data, m.field, None)} :
                         ~InStrList(field_value, allowed_values(m.arg))
                   THEN "false" ELSE "pass" :
                 m \in {MatchPredicate(condition, "IN", "(", ")")}} : TRUE
    ELSE "pass"

\* match_conditions(conditions, data): "true", "false", or "raise" when the
\* regular expression of a condition does not match (None has no groups())
RECURSIVE match_conditions(_, _)
match_conditions(conditions, data) ==
    IF conditions = <<>> THEN "true"
    ELSE CHOOSE val \in
             {IF r = "pass" THEN match_conditions(Tail(conditions), data) ELSE r :
                 r \in {match_condition(Head(conditions), data)}} : TRUE

(***************************************************************************)
(* Outcome of a call that may raise: the value returned, or the message of *)
(* the exception, str(e).                                                  *)
(***************************************************************************)
Return(v) == [ok |-> TRUE, result |-> v]
Raise(msg) == [ok |-> FALSE, error |-> msg]

\* type(v).__name__
TypeName(v) ==
    CASE v.t = "none" -> "NoneType"
      [] v.t = "str"  -> "str"
      [] v.t = "int"  -> "int"
      [] v.t = "bool" -> "bool"
      [] v.t = "list" -> "list"
      [] v.t = "dict" -> "dict"

NoAttribute(v, attr) ==
    Raise("'" \o TypeName(v) \o "' object has no attribute '" \o attr \o "'")

(***************************************************************************)
(* Parameter resolver                                                      *)
(***************************************************************************)
\* for part in parts: resolved_value = resolved_value.get(part, "")
RECURSIVE WalkPath(_, _)
WalkPath(resolved_value, parts) ==
    IF parts = <<>> THEN Return(resolved_value)
    ELSE IF ~IsDict(resolved_value) THEN NoAttribute(resolved_value, "get")
    ELSE WalkPath(DictGet(resolved_value, Head(parts), VStr("")), Tail(parts))

\* the value one parameter resolves to
resolve_value(value, context) ==
    IF IsStr(value) /\ StartsWith(value.s, "${")
    THEN CHOOSE val \in
             {IF Contains(var_name, ".")
              THEN CHOOSE res \in {WalkPath(context, parts) :
                                      parts \in {Split(var_name, ".")}} : TRUE
              ELSE Return(DictGet(context, var_name, value)) :
                 var_name \in {Slice(value.s, 3, Len(value.s) - 1)}} : TRUE
    ELSE Return(value)

RECURSIVE ResolveItems(_, _, _)
ResolveItems(items, context, resolved) ==
    IF items = <<>> THEN Return(resolved)
    ELSE CHOOSE val \in
             {IF ~r.ok THEN r
              ELSE CHOOSE res \in
                       {ResolveItems(Tail(items), context, resolved_) :
                           resolved_ \in {DictSet(resolved, Head(items).k, r.result)}} : TRUE :
                 r \in {resolve_value(Head(items).v, context)}} : TRUE

\* resolve_parameters(params, context)
resolve_parameters(params, context) == ResolveItems(params.items, context, EmptyDict)

(***************************************************************************)
(* Tool dispatcher                                                         *)
(***************************************************************************)
SummaryText == "DMV notice regarding vehicle registration suspension for 2004 Volvo. Insurance proof required by 03/27/2025 to avoid suspension. $14 fee for reinstatement."

\* the sequence a for loop iterates over, or a raise when v is not iterable
Iterate(v) ==
    CASE v.t = "list" -> Return(v.l)
      [] v.t = "str"  -> Return([i \in 1..Len(v.s) |-> VStr(CharAt(v.s, i))])
      [] v.t = "dict" -> Return([i \in 1..Len(v.items) |-> VStr(v.items[i].k)])
      [] OTHER        -> Raise("'" \o TypeName(v) \o "' object is not iterable")

\* the keyword loop of ai_classify_urgency
RECURSIVE CountHits(_, _, _)
CountHits(keywords, content, urgency_score) ==
    IF keywords = <<>> THEN Return(urgency_score)
    ELSE IF ~IsStr(Head(keywords)) THEN NoAttribute(Head(keywords), "lower")
    ELSE IF ~IsStr(content) THEN NoAttribute(content, "lower")
    ELSE CHOOSE val \in
             {CountHits(Tail(keywords), content, score) :
                 score \in {IF \E content_lower \in {Lower(content.s)},
                                  keyword_lower \in {Lower(Head(keywords).s)} :
                                  Contains(content_lower, keyword_lower)
                            THEN urgency_score + 1 ELSE urgency_score}} : TRUE

\* mutant: one hit is enough for the tier urgent
urgency_level_urgent_at_one(urgency_score) ==
    IF urgency_score >= 1 THEN "urgent"
    ELSE "normal"

urgency_level(urgency_score) ==
    IF urgency_score >= 2 THEN "urgent"
    ELSE IF urgency_score >= 1 THEN "high"
    ELSE "normal"

ai_classify_urgency(params) ==
    CHOOSE val \in
        {IF ~keywords.ok THEN keywords
         ELSE CHOOSE res \in
                  {IF ~score.ok THEN score
                   ELSE Return(VDict(<<Item("urgency_level",
                                            VStr(urgency_level(score.result))),
                                       Item("urgency_score", VInt(score.result))>>)) :
                      score \in {CountHits(keywords.result, content, 0)}} : TRUE :
            content \in {DictGet(params, "content", VStr(""))},
            keywords \in {Iterate(DictGet(params, "keywords", VList(<<>>)))}} : TRUE

\* k in entity_types
InTypes(k, entity_types) ==
    CASE entity_types.t = "list" -> Return(VStr(k) \in {entity_types.l[i] : i \in 1..Len(entity_types.l)})
      [] entity_types.t = "str"  -> Return(Contains(entity_types.s, k))
      [] entity_types.t = "dict" -> Return(HasKey(entity_types, k))
      [] OTHER -> Raise("argument of type '" \o TypeName(entity_types) \o "' is not iterable")

RECURSIVE FilterEntities(_, _, _)
FilterEntities(keys, entity_types, kept) ==
    IF keys = <<>> THEN Return(kept)
    ELSE CHOOSE val \in
             {IF ~r.ok THEN r
              ELSE CHOOSE res \in
                       {FilterEntities(Tail(keys), entity_types, kept_) :
                           kept_ \in {IF r.result
                                      THEN DictSet(kept, Head(keys), VList(<<>>))
                                      ELSE kept}} : TRUE :
                 r \in {InTypes(Head(keys), entity_types)}} : TRUE

\* The contents of the model hold no digit, "$" or ":", so that each of
\* extract_dates, extract_amounts, extract_vehicles and extract_deadlines
\* finds nothing and returns the empty list; re.findall raises on a content
\* that is not a str.
ai_extract_entities(params) ==
    CHOOSE val \in
        {IF ~IsStr(content) THEN Raise("expected string or bytes-like object")
         ELSE CHOOSE res \in
                  {IF ~r.ok THEN r ELSE Return(VDict(<<Item("entities", r.result)>>)) :
                      r \in {FilterEntities(<<"dates", "amounts", "vehicles", "deadlines">>,
                                            entity_types, EmptyDict)}} : TRUE :
            content \in {DictGet(params, "content", VStr(""))},
            entity_types \in {DictGet(params, "types",
                                      VList(<<VStr("dates"), VStr("amounts"),
                                              VStr("companies")>>))}} : TRUE

execute_ai_tool(tool_name, params, context) ==
    IF tool_name = "ai_summarize"
    THEN Return(VDict(<<Item("summary", VStr(SummaryText))>>))
    ELSE IF tool_name = "ai_extract_entities" THEN ai_extract_entities(params)
    ELSE IF tool_name = "ai_classify_urgency" THEN ai_classify_urgency(params)
    ELSE Raise("Unknown AI tool: " \o tool_name)

execute_crm_tool(tool_name, params, context) ==
    IF tool_name = "crm_update_communication"
    THEN Return(VDict(<<Item("success", VBool(TRUE)),
                        Item("message", VStr("Communication updated")),
                        Item("communication_id", DictGet(params, "communication_id", None))>>))
    ELSE IF tool_name = "crm_create_task"
    THEN Return(VDict(<<Item("task_id", VInt(123)),
                        Item("success", VBool(TRUE)),
                        Item("title", DictGet(params, "title", VStr("New Task")))>>))
    ELSE Raise("Unknown CRM tool: " \o tool_name)

execute_vision_tool(tool_name, params, context) ==
    IF tool_name = "vision_extract_invoice"
    THEN Return(VDict(<<Item("extracted_data", EmptyDict), Item("success", VBool(TRUE))>>))
    ELSE Raise("Unknown vision tool: " \o tool_name)

execute_quickbooks_tool(tool_name, params, context) ==
    IF tool_name = "quickbooks_create_vendor"
    THEN Return(VDict(<<Item("vendor_id", VInt(456)), Item("success", VBool(TRUE))>>))
    ELSE Raise("Unknown QuickBooks tool: " \o tool_name)

\* mutant: a tool name of no known namespace is served as workflow_log
dispatch_tool_unknown_is_logged(tool_name, resolved_params, context) ==
    IF StartsWith(tool_name, "ai_")
    THEN execute_ai_tool(tool_name, resolved_params, context)
    ELSE IF StartsWith(tool_name, "crm_")
    THEN execute_crm_tool(tool_name, resolved_params, context)
    ELSE IF StartsWith(tool_name, "vision_")
    THEN execute_vision_tool(tool_name, resolved_params, context)
    ELSE IF StartsWith(tool_name, "quickbooks_")
    THEN execute_quickbooks_tool(tool_name, resolved_params, context)
    ELSE Return(VDict(<<Item("logged", VBool(TRUE)),
                        Item("message", VStr("Workflow completion logged"))>>))

\* the routing of execute_tool on the tool name
dispatch_tool(tool_name, resolved_params, context) ==
    IF StartsWith(tool_name, "ai_")
    THEN execute_ai_tool(tool_name, resolved_params, context)
    ELSE IF StartsWith(tool_name, "crm_")
    THEN execute_crm_tool(tool_name, resolved_params, context)
    ELSE IF StartsWith(tool_name, "vision_")
    THEN execute_vision_tool(tool_name, resolved_params, context)
    ELSE IF StartsWith(tool_name, "quickbooks_")
    THEN execute_quickbooks_tool(tool_name, resolved_params, context)
    ELSE IF tool_name = "workflow_log"
    THEN Return(VDict(<<Item("logged", VBool(TRUE)),
                        Item("message", VStr("Workflow completion logged"))>>))
    ELSE Raise("Unknown tool: " \o tool_name)

\* execute_tool(tool_name, params, context): params.items() needs a dict and
\* tool_name.startswith a str
execute_tool(tool_name, params, context) ==
    IF ~IsDict(params) THEN NoAttribute(params, "items")
    ELSE CHOOSE val \in
             {IF ~resolved_params.ok THEN resolved_params
              ELSE IF ~IsStr(tool_name) THEN NoAttribute(tool_name, "startswith")
              ELSE dispatch_tool(tool_name.s, resolved_params.result, context) :
                 resolved_params \in {resolve_parameters(params, context)}} : TRUE

(***************************************************************************)
(* JSON text, held as the document it denotes                              *)
(***************************************************************************)
RECURSIVE json_encode(_)
json_encode(v) ==
    CASE v.t = "none" -> [j |-> "null"]
      [] v.t = "str"  -> [j |-> "string", s |-> v.s]
      [] v.t = "int"  -> [j |-> "number", n |-> v.n]
      [] v.t = "bool" -> [j |-> IF v.b THEN "true" ELSE "false"]
      [] v.t = "text" -> [j |-> "string of text", doc |-> v.doc]
      [] v.t = "list" -> [j |-> "array",
                          a |-> [i \in 1..Len(v.l) |-> json_encode(v.l[i])]]
      [] v.t = "dict" -> [j |-> "object",
                          members |-> [i \in 1..Len(v.items) |->
                                         [name |-> v.items[i].k,
                                          value |-> json_encode(v.items[i].v)]]]

RECURSIVE json_decode(_)
json_decode(d) ==
    CASE d.j = "null"   -> None
      [] d.j = "string" -> VStr(d.s)
      [] d.j = "number" -> VInt(d.n)
      [] d.j = "true"   -> VBool(TRUE)
      [] d.j = "false"  -> VBool(FALSE)
      [] d.j = "string of text" -> [t |-> "text", doc |-> d.doc]
      [] d.j = "array"  -> VList([i \in 1..Len(d.a) |-> json_decode(d.a[i])])
      [] d.j = "object" -> VDict([i \in 1..Len(d.members) |->
                                    Item(d.members[i].name, json_decode(d.members[i].value))])

\* json.dumps(v)
json_dumps(v) == [t |-> "text", doc |-> json_encode(v)]

\* json.loads(text)
json_loads(text) == json_decode(text.doc)

(***************************************************************************)
(* Records of a run                                                        *)
(***************************************************************************)
\* datetime.now().strftime('%Y%m%d_%H%M%S'), the clock counting the seconds
\* of one minute
strftime(t) == "20250101_0000" \o IntStr(t \div 10) \o IntStr(t % 10)

\* datetime.now().isoformat()
isoformat(t) == "2025-01-01T00:00:" \o IntStr(t \div 10) \o IntStr(t % 10)

\* the execution id of execute_workflow
make_execution_id(workflow_name, t) == workflow_name \o "_" \o strftime(t)

\* WorkflowResult(...)
WorkflowResult(success, step_name, tool_name, result, error, t) ==
    [success |-> success, step_name |-> step_name, tool_name |-> tool_name,
     result |-> result, error |-> error, timestamp |-> isoformat(t)]

\* mutant: the execution is created with the status pending
WorkflowExecution_created_pending(workflow_name, trigger_event, trigger_data, execution_id, t) ==
    [workflow_name |-> workflow_name, trigger_event |-> trigger_event,
     trigger_data |-> trigger_data, execution_id |-> execution_id,
     status |-> "pending", steps_completed |-> <<>>,
     started_at |-> isoformat(t), completed_at |-> None]

\* WorkflowExecution(...) as execute_workflow creates it
WorkflowExecution(workflow_name, trigger_event, trigger_data, execution_id, t) ==
    [workflow_name |-> workflow_name, trigger_event |-> trigger_event,
     trigger_data |-> trigger_data, execution_id |-> execution_id,
     status |-> "running", steps_completed |-> <<>>,
     started_at |-> isoformat(t), completed_at |-> None]

\* asdict(step)
asdict(step) ==
    VDict(<<Item("success", VBool(step.success)),
            Item("step_name", step.step_name),
            Item("tool_name", step.tool_name),
            Item("result", step.result),
            Item("error", step.error),
            Item("timestamp", VStr(step.timestamp))>>)

\* [asdict(step) for step in execution.steps_completed]
steps_as_dicts(e) ==
    VList([i \in 1..Len(e.steps_completed) |-> asdict(e.steps_completed[i])])

(***************************************************************************)
(* Bounds of the model                                                     *)
(***************************************************************************)
\* number of runs triggered
MaxRuns == 2
\* seconds the clock advances
MaxTime == 1
\* number of process restarts
MaxRestarts == 1
\* longest step list of the generated definitions
MaxSteps == 3
\* longest path of a placeholder
MaxPath == 3
MaxKeywords == 3
MaxFiles == 3

Runs == 1..MaxRuns

(***************************************************************************)
(* Workflow definitions, as yaml.safe_load returns them.  A definition is  *)
(* a mapping with an optional name and a list of steps; a step is a        *)
(* mapping with a name, a tool, optional params and an optional list of    *)
(* condition strings.                                                      *)
(***************************************************************************)
StrList(l) == VList([i \in 1..Len(l) |-> VStr(l[i])])

StepDef(name, tool, params, conditions) ==
    VDict(<<Item("name", VStr(name)), Item("tool", VStr(tool)), Item("params", params)>>
          \o (IF conditions = <<>> THEN <<>> ELSE <<Item("conditions", StrList(conditions))>>))

WorkflowDef(name, steps) ==
    VDict(<<Item("name", VStr(name)), Item("steps", VList(steps))>>)

\* a definition file without a name field
UnnamedWorkflowDef(steps) == VDict(<<Item("steps", VList(steps))>>)

\* a file yaml.safe_load fails on
InvalidYaml == [t |-> "invalid"]

ContentParam == VDict(<<Item("content", VStr("${trigger_data.content}"))>>)

UrgencyParams ==
    VDict(<<Item("content", VStr("${trigger_data.content}")),
            Item("keywords", StrList(<<"urgent", "overdue">>))>>)

\* the files of the workflows directory
Directory ==
    [urgent_triage |->
        WorkflowDef("Urgent Triage",
            <<StepDef("classify_urgency", "ai_classify_urgency", UrgencyParams, <<>>),
              StepDef("log_completion", "workflow_log", EmptyDict, <<>>)>>),
     notify |->
        UnnamedWorkflowDef(
            <<StepDef("send", "send_email",
                      VDict(<<Item("to", VStr("${trigger_data.sender}"))>>), <<>>),
              StepDef("escalate", "crm_create_task",
                      VDict(<<Item("title", VStr("${trigger_data.content}"))>>),
                      <<"trigger_data LIKE '%urgent%'">>)>>),
     broken |-> InvalidYaml]

\* the kinds of step the generated definitions are made of
StepKinds ==
    {[tool |-> "ai_summarize", params |-> ContentParam, conditions |-> <<>>],
     [tool |-> "ai_classify_urgency", params |-> UrgencyParams,
      conditions |-> <<"trigger_data LIKE '%urgent%'">>],
     [tool |-> "send_email",
      params |-> VDict(<<Item("to", VStr("${trigger_data.sender}"))>>),
      conditions |-> <<>>],
     [tool |-> "crm_create_task",
      params |-> VDict(<<Item("title", VStr("${execution_results.step1.summary}"))>>),
      conditions |-> <<>>],
     [tool |-> "workflow_log", params |-> EmptyDict, conditions |-> <<>>],
     [tool |-> "workflow_log", params |-> EmptyDict,
      conditions |-> <<"trigger_data LIKE '%e%'", "priority LIKE urgent">>],
     [tool |-> "crm_update_communication",
      params |-> VDict(<<Item("communication_id", VStr("${trigger_data.id}"))>>),
      conditions |-> <<"status IN ('open', 'pending')">>],
     [tool |-> "workflow_log", params |-> EmptyDict,
      conditions |-> <<"content LIKE '%urgent%'">>]}

\* the step lists of at most MaxSteps steps, the i-th step named step<i>
StepLists ==
    UNION {{[i \in 1..n |-> StepDef("step" \o IntStr(i), ks[i].tool, ks[i].params,
                                    ks[i].conditions)] :
              ks \in [1..n -> StepKinds]} : n \in 0..MaxSteps}

\* the trigger data of the requests
TriggerData ==
    {VDict(<<Item("content", VStr("URGENT payment overdue"))>>),
     VDict(<<Item("content", VStr("hello"))>>)}

TriggerEvent == "communication.created"

\* the workflow names of the requests
RequestNames == {"Urgent Triage", "notify", "missing"}

(***************************************************************************)
(* State                                                                   *)
(***************************************************************************)
VARIABLES
    files,        \* WORKFLOWS_DIR: file stem -> parsed content
    workflows,    \* WorkflowEngine.workflows: name -> definition
    executions,   \* WorkflowEngine.executions: execution id -> the run whose
                  \* WorkflowExecution object the table refers to
    db,           \* table workflow_executions: execution id -> row
    now,          \* the clock, in seconds
    restarts,     \* restarts of the process so far
    pc,           \* position of each run in trigger_workflow / execute_workflow
    execution,    \* the WorkflowExecution object of each run
    workflow_def, \* local workflow_def of execute_workflow
    context,      \* local context of execute_workflow
    idx,          \* position of the step loop
    trace,        \* what each pass of the step loop did
    reply,        \* what trigger_workflow gave its caller
    call,         \* the function called on its own and its arguments
    returned,     \* what that call returned or raised
    loading,      \* load_workflows in progress: the files it has yet to visit
    before        \* the definition table when that load_workflows began

vars == <<files, workflows, executions, db, now, restarts, pc, execution,
          workflow_def, context, idx, trace, reply, call, returned, loading,
          before>>

EmptyTable == [k \in {} |-> None]

\* trigger_workflow is a plain function that runs execute_workflow to its end
\* with asyncio.run (line 382), and get_workflow_execution is one too: a call
\* starts when no other is in flight
NoCallInFlight == \A r \in Runs : pc[r] \in {"idle", "done"}

\* load_workflows: the files are visited in the order glob yields them;
\* a file that does not parse to a mapping is skipped
\* mutant: the entry is stored in the table before the document is read
\* into it
load_file_entry_stored_empty(table, dir, stem) ==
    IF ~IsDict(dir[stem]) THEN table
    ELSE (DictGet(dir[stem], "name", VStr(stem)).s :> EmptyDict) @@ table

\* mutant: a file that does not parse ends the load with an empty table
load_file_failure_clears(table, dir, stem) ==
    IF ~IsDict(dir[stem]) THEN EmptyTable
    ELSE (DictGet(dir[stem], "name", VStr(stem)).s :> dir[stem]) @@ table

\* one pass of the loop of load_workflows on the file stem (lines 81-88):
\* self.workflows[workflow_name] = workflow_def
load_file(table, dir, stem) ==
    IF ~IsDict(dir[stem]) THEN table
    ELSE (DictGet(dir[stem], "name", VStr(stem)).s :> dir[stem]) @@ table

RECURSIVE load_workflows(_, _, _)
load_workflows(table, dir, order) ==
    IF order = <<>> THEN table
    ELSE load_workflows(load_file(table, dir, Head(order)), dir, Tail(order))

\* the orders glob may yield the files in
GlobOrders(dir) ==
    {o \in [1..Cardinality(DOMAIN dir) -> DOMAIN dir] :
        \A i, j \in DOMAIN o : i # j => o[i] # o[j]}

\* workflow_def.get('steps', [])
StepsOf(wdef) == DictGet(wdef, "steps", VList(<<>>)).l

\* step.get('conditions', []) as the list of its strings
ConditionsOf(step) ==
    LET c == DictGet(step, "conditions", VList(<<>>)).l
    IN  [i \in 1..Len(c) |-> c[i].s]

\* not (conditions and not self.match_conditions(conditions, context)):
\* "true", "false", or "raise"
conditions_hold(conditions, ctx) ==
    IF conditions = <<>> THEN "true" ELSE match_conditions(conditions, ctx)

\* context = {"trigger_data": trigger_data, "execution_results": {}}
NewContext(trigger_data) ==
    VDict(<<Item("trigger_data", trigger_data), Item("execution_results", EmptyDict)>>)

\* mutant: the result is stored in the context itself, beside trigger_data
MergeResult_beside_trigger_data(ctx, step_name, result) ==
    DictSet(ctx, IF IsStr(step_name) THEN step_name.s ELSE PyRepr(step_name), result)

\* context["execution_results"][step_name] = result
MergeResult(ctx, step_name, result) ==
    DictSet(ctx, "execution_results",
            DictSet(DictGet(ctx, "execution_results", EmptyDict),
                    IF IsStr(step_name) THEN step_name.s ELSE PyRepr(step_name), result))

(***************************************************************************)
(* Executor                                                                *)
(***************************************************************************)
\* What one pass of the step loop of execute_workflow leaves: what the
\* conditions gave, whether execute_tool was called and returned, the
\* StepResults the pass appends, the context it leaves, and whether an
\* exception leaves the loop.
\* mutant: a condition that raises skips its step like a false one
StepSkipped_raise_is_skip(cond, ctx) ==
    [cond |-> cond, invoked |-> FALSE, tool_ok |-> FALSE,
     appended |-> <<>>, context |-> ctx, abort |-> FALSE]

\* The conditions are false (continue), or match_conditions raised, which
\* happens outside the inner try (lines 137-138)
StepSkipped(cond, ctx) ==
    [cond |-> cond, invoked |-> FALSE, tool_ok |-> FALSE,
     appended |-> <<>>, context |-> ctx, abort |-> cond = "raise"]

\* mutant: the StepResult of a success is appended twice
StepSucceeded_recorded_twice(step_name, tool_name, result, ctx, t) ==
    [cond |-> "true", invoked |-> TRUE, tool_ok |-> TRUE,
     appended |-> <<WorkflowResult(TRUE, step_name, tool_name, result, None, t),
                    WorkflowResult(TRUE, step_name, tool_name, result, None, t)>>,
     context |-> MergeResult(ctx, step_name, result),
     abort |-> FALSE]

\* execute_tool returned (lines 142-152)
StepSucceeded(step_name, tool_name, result, ctx, t) ==
    [cond |-> "true", invoked |-> TRUE, tool_ok |-> TRUE,
     appended |-> <<WorkflowResult(TRUE, step_name, tool_name, result, None, t)>>,
     context |-> MergeResult(ctx, step_name, result),
     abort |-> FALSE]

\* mutant: the error of a failed step is stored in the context under its name
StepFailed_error_in_context(step_name, tool_name, error, ctx, t) ==
    [cond |-> "true", invoked |-> TRUE, tool_ok |-> FALSE,
     appended |-> <<WorkflowResult(FALSE, step_name, tool_name, None, VStr(error), t)>>,
     context |-> DictSet(ctx, "execution_results",
                         DictSet(DictGet(ctx, "execution_results", EmptyDict),
                                 PyStr(step_name),
                                 VDict(<<Item("error", VStr(error))>>))),
     abort |-> FALSE]

\* execute_tool raised (lines 154-163)
StepFailed(step_name, tool_name, error, ctx, t) ==
    [cond |-> "true", invoked |-> TRUE, tool_ok |-> FALSE,
     appended |-> <<WorkflowResult(FALSE, step_name, tool_name, None, VStr(error), t)>>,
     context |-> ctx,
     abort |-> FALSE]

\* mutant: the exception of a tool leaves the step loop
step_pass_abort_on_failure(step, ctx, t) ==
    CHOOSE val \in
        {IF cond # "true" THEN StepSkipped(cond, ctx)
         ELSE CHOOSE res \in
                  {IF out.ok THEN StepSucceeded(step_name, tool_name, out.result, ctx, t)
                   ELSE [StepFailed(step_name, tool_name, out.error, ctx, t) EXCEPT !.abort = TRUE] :
                      out \in {execute_tool(tool_name, params, ctx)}} : TRUE :
            step_name \in {DictGet(step, "name", None)},
            tool_name \in {DictGet(step, "tool", None)},
            params \in {DictGet(step, "params", EmptyDict)},
            cond \in {conditions_hold(ConditionsOf(step), ctx)}} : TRUE

\* mutant: the StepResult of a success carries the tool name as step name
step_pass_tool_as_name(step, ctx, t) ==
    CHOOSE val \in
        {IF cond # "true" THEN StepSkipped(cond, ctx)
         ELSE CHOOSE res \in
                  {IF out.ok THEN StepSucceeded(tool_name, tool_name, out.result, ctx, t)
                   ELSE StepFailed(step_name, tool_name, out.error, ctx, t) :
                      out \in {execute_tool(tool_name, params, ctx)}} : TRUE :
            step_name \in {DictGet(step, "name", None)},
            tool_name \in {DictGet(step, "tool", None)},
            params \in {DictGet(step, "params", EmptyDict)},
            cond \in {conditions_hold(ConditionsOf(step), ctx)}} : TRUE

\* mutant: a step whose conditions are false is recorded as failed
step_pass_skip_recorded(step, ctx, t) ==
    CHOOSE val \in
        {IF cond = "false"
         THEN [StepSkipped(cond, ctx) EXCEPT !.appended =
                  <<WorkflowResult(FALSE, step_name, tool_name, None,
                                   VStr("conditions not met"), t)>>]
         ELSE IF cond # "true" THEN StepSkipped(cond, ctx)
         ELSE CHOOSE res \in
                  {IF out.ok THEN StepSucceeded(step_name, tool_name, out.result, ctx, t)
                   ELSE StepFailed(step_name, tool_name, out.error, ctx, t) :
                      out \in {execute_tool(tool_name, params, ctx)}} : TRUE :
            step_name \in {DictGet(step, "name", None)},
            tool_name \in {DictGet(step, "tool", None)},
            params \in {DictGet(step, "params", EmptyDict)},
            cond \in {conditions_hold(ConditionsOf(step), ctx)}} : TRUE

\* one pass of the step loop of execute_workflow on a step (lines 131-163)
step_pass(step, ctx, t) ==
    CHOOSE val \in
        {IF cond # "true" THEN StepSkipped(cond, ctx)
         ELSE CHOOSE res \in
                  {IF out.ok THEN StepSucceeded(step_name, tool_name, out.result, ctx, t)
                   ELSE StepFailed(step_name, tool_name, out.error, ctx, t) :
                      out \in {execute_tool(tool_name, params, ctx)}} : TRUE :
            step_name \in {DictGet(step, "name", None)},
            tool_name \in {DictGet(step, "tool", None)},
            params \in {DictGet(step, "params", EmptyDict)},
            cond \in {conditions_hold(ConditionsOf(step), ctx)}} : TRUE

\* mutant: a run one of whose steps failed is marked failed
finish_failed_on_step_failure(e, status, t) ==
    [e EXCEPT !.status = IF \E i \in 1..Len(e.steps_completed) :
                                ~e.steps_completed[i].success
                         THEN "failed" ELSE status,
              !.completed_at = VStr(isoformat(t))]

\* mutant: the completion timestamp is not set
finish_without_timestamp(e, status, t) == [e EXCEPT !.status = status]

\* mutant: the step list is emptied when the run ends
finish_drops_steps(e, status, t) ==
    [e EXCEPT !.status = status, !.completed_at = VStr(isoformat(t)),
              !.steps_completed = <<>>]

\* execution.status = status; execution.completed_at = datetime.now().isoformat()
finish(e, status, t) ==
    [e EXCEPT !.status = status, !.completed_at = VStr(isoformat(t))]

\* CURRENT_TIMESTAMP of sqlite
current_timestamp(t) == "2025-01-01 00:00:" \o IntStr(t \div 10) \o IntStr(t % 10)

\* mutant: the row is written with the status running
execution_row_status_running(e, t) ==
    [execution_id |-> e.execution_id, workflow_name |-> e.workflow_name,
     trigger_event |-> e.trigger_event, trigger_data |-> json_dumps(e.trigger_data),
     status |-> "running", started_at |-> e.started_at, completed_at |-> e.completed_at,
     steps_completed |-> json_dumps(steps_as_dicts(e)),
     created_at |-> current_timestamp(t)]

\* the row save_execution writes
execution_row(e, t) ==
    [execution_id |-> e.execution_id, workflow_name |-> e.workflow_name,
     trigger_event |-> e.trigger_event, trigger_data |-> json_dumps(e.trigger_data),
     status |-> e.status, started_at |-> e.started_at, completed_at |-> e.completed_at,
     steps_completed |-> json_dumps(steps_as_dicts(e)),
     created_at |-> current_timestamp(t)]

\* what trigger_workflow returns (the result it serialises) when
\* execute_workflow returned e, and when it raised an exception with message msg
trigger_workflow_result(workflow_name, e) ==
    Return(VDict(<<Item("success", VBool(TRUE)),
                   Item("execution_id", VStr(e.execution_id)),
                   Item("status", VStr(e.status)),
                   Item("steps_completed", VInt(Len(e.steps_completed))),
                   Item("workflow_name", VStr(workflow_name))>>))

\* mutant: the exception of execute_workflow leaves trigger_workflow
trigger_workflow_error_escapes(workflow_name, msg) == Raise(msg)

trigger_workflow_error(workflow_name, msg) ==
    Return(VDict(<<Item("success", VBool(FALSE)),
                   Item("error", VStr(msg)),
                   Item("workflow_name", VStr(workflow_name))>>))

Init ==
    /\ files = Directory
    /\ \E order \in GlobOrders(files) : workflows = load_workflows(EmptyTable, files, order)
    /\ executions = EmptyTable
    /\ db = EmptyTable
    /\ now = 0
    /\ restarts = 0
    /\ pc = [r \in Runs |-> "idle"]
    /\ execution = [r \in Runs |-> None]
    /\ workflow_def = [r \in Runs |-> None]
    /\ context = [r \in Runs |-> None]
    /\ idx = [r \in Runs |-> 0]
    /\ trace = [r \in Runs |-> <<>>]
    /\ reply = [r \in Runs |-> None]
    /\ call = None
    /\ returned = None
    /\ loading = <<>>
    /\ before = EmptyTable

\* trigger_workflow calls execute_workflow, which creates the execution,
\* enters it in the table and looks the definition up (lines 112-128); a
\* KeyError is caught by the outer handler (lines 168-171).  Runs are
\* numbered in the order they start.
Trigger(r, workflow_name, trigger_data) ==
    /\ pc[r] = "idle"
    /\ NoCallInFlight
    /\ \A q \in Runs : q < r => pc[q] = "done"
    /\ LET execution_id == make_execution_id(workflow_name, now)
           e == WorkflowExecution(workflow_name, TriggerEvent, trigger_data,
                                  execution_id, now)
       IN  /\ executions' = (execution_id :> r) @@ executions
           /\ IF workflow_name \in DOMAIN workflows
              THEN /\ execution' = [execution EXCEPT ![r] = e]
                   /\ workflow_def' = [workflow_def EXCEPT ![r] = workflows[workflow_name]]
                   /\ context' = [context EXCEPT ![r] = NewContext(trigger_data)]
                   /\ idx' = [idx EXCEPT ![r] = 1]
                   /\ pc' = [pc EXCEPT ![r] = "steps"]
              ELSE /\ execution' = [execution EXCEPT ![r] = finish(e, "failed", now)]
                   /\ pc' = [pc EXCEPT ![r] = "save"]
                   /\ UNCHANGED <<workflow_def, context, idx>>
    /\ UNCHANGED <<files, workflows, db, now, restarts, trace, reply>>
    /\ UNCHANGED <<call, returned, loading, before>>

\* mutant: each pass of the loop reads the step list from the definition
\* table again
LoopSteps_from_table(r) ==
    IF execution[r].workflow_name \in DOMAIN workflows
    THEN StepsOf(workflows[execution[r].workflow_name])
    ELSE <<>>

\* the list the loop of line 130 iterates: the steps of the definition the
\* run looked up at line 127
LoopSteps(r) == StepsOf(workflow_def[r])

\* one pass of the step loop (lines 130-163); an exception of
\* match_conditions leaves the loop for the outer handler (lines 168-171)
Step(r) ==
    /\ pc[r] = "steps"
    /\ idx[r] <= Len(LoopSteps(r))
    /\ \E pass \in {step_pass(LoopSteps(r)[idx[r]], context[r], now)} :
           /\ trace' = [trace EXCEPT ![r] =
                          Append(@, [cond |-> pass.cond, invoked |-> pass.invoked,
                                     tool_ok |-> pass.tool_ok])]
           /\ context' = [context EXCEPT ![r] = pass.context]
           /\ IF pass.abort
              THEN /\ execution' = [execution EXCEPT ![r] =
                          finish([@ EXCEPT !.steps_completed = @ \o pass.appended],
                                 "failed", now)]
                   /\ pc' = [pc EXCEPT ![r] = "save"]
                   /\ UNCHANGED idx
              ELSE /\ execution' = [execution EXCEPT ![r].steps_completed =
                                       @ \o pass.appended]
                   /\ idx' = [idx EXCEPT ![r] = @ + 1]
                   /\ UNCHANGED pc
    /\ UNCHANGED <<files, workflows, executions, db, now, restarts, workflow_def, reply>>
    /\ UNCHANGED <<call, returned, loading, before>>

\* the loop is over: status completed (lines 165-166)
Complete(r) ==
    /\ pc[r] = "steps"
    /\ idx[r] > Len(LoopSteps(r))
    /\ execution' = [execution EXCEPT ![r] = finish(@, "completed", now)]
    /\ pc' = [pc EXCEPT ![r] = "save"]
    /\ UNCHANGED <<files, workflows, executions, db, now, restarts, workflow_def,
                   context, idx, trace, reply>>
    /\ UNCHANGED <<call, returned, loading, before>>

\* save_execution writes the row (INSERT OR REPLACE), execute_workflow
\* returns the execution and trigger_workflow its summary (lines 174-175,
\* 386-394)
Save(r) ==
    /\ pc[r] = "save"
    /\ db' = (execution[r].execution_id :> execution_row(execution[r], now)) @@ db
    /\ reply' = [reply EXCEPT ![r] =
                    trigger_workflow_result(execution[r].workflow_name, execution[r])]
    /\ pc' = [pc EXCEPT ![r] = "done"]
    /\ UNCHANGED <<files, workflows, executions, now, restarts, execution,
                   workflow_def, context, idx, trace>>
    /\ UNCHANGED <<call, returned, loading, before>>

\* the write of save_execution fails (the database is locked or cannot be
\* opened); the exception leaves execute_workflow and trigger_workflow turns
\* it into its error result (lines 396-402)
SaveFails(r) ==
    /\ pc[r] = "save"
    /\ reply' = [reply EXCEPT ![r] =
                    trigger_workflow_error(execution[r].workflow_name,
                                           "database is locked")]
    /\ pc' = [pc EXCEPT ![r] = "done"]
    /\ UNCHANGED <<files, workflows, executions, db, now, restarts, execution,
                   workflow_def, context, idx, trace>>
    /\ UNCHANGED <<call, returned, loading, before>>

\* a second passes on the clock, between two calls
Tick ==
    /\ now < MaxTime
    /\ NoCallInFlight
    /\ now' = now + 1
    /\ UNCHANGED <<files, workflows, executions, db, restarts, pc, execution,
                   workflow_def, context, idx, trace, reply>>
    /\ UNCHANGED <<call, returned, loading, before>>

\* The process is started again while no run is in flight: a new
\* WorkflowEngine with an empty execution table loads the directory; the
\* files and the database stay (lines 53-57, 363)
Restart ==
    /\ restarts < MaxRestarts
    /\ NoCallInFlight
    /\ \E r \in Runs : pc[r] = "done"
    /\ restarts' = restarts + 1
    /\ executions' = EmptyTable
    /\ \E order \in GlobOrders(files) :
           workflows' = load_workflows(EmptyTable, files, order)
    /\ UNCHANGED <<files, db, now, pc, execution, workflow_def, context, idx,
                   trace, reply>>
    /\ UNCHANGED <<call, returned, loading, before>>

Next ==
    \/ \E r \in Runs, workflow_name \in RequestNames, trigger_data \in TriggerData :
           Trigger(r, workflow_name, trigger_data)
    \/ \E r \in Runs : Step(r)
    \/ \E r \in Runs : Complete(r)
    \/ \E r \in Runs : Save(r)
    \/ \E r \in Runs : SaveFails(r)
    \/ Tick
    \/ Restart

Spec == Init /\ [][Next]_vars

(***************************************************************************)
(* One run of a generated definition: the directory holds one file, wf,    *)
(* with any step list of StepLists.                                        *)
(***************************************************************************)
InitDefs ==
    /\ \E steps \in StepLists : files = [wf |-> WorkflowDef("wf", steps)]
    /\ \E order \in GlobOrders(files) : workflows = load_workflows(EmptyTable, files, order)
    /\ executions = EmptyTable
    /\ db = EmptyTable
    /\ now = 0
    /\ restarts = 0
    /\ pc = [r \in Runs |-> "idle"]
    /\ execution = [r \in Runs |-> None]
    /\ workflow_def = [r \in Runs |-> None]
    /\ context = [r \in Runs |-> None]
    /\ idx = [r \in Runs |-> 0]
    /\ trace = [r \in Runs |-> <<>>]
    /\ reply = [r \in Runs |-> None]
    /\ call = None
    /\ returned = None
    /\ loading = <<>>
    /\ before = EmptyTable

NextDefs ==
    \/ \E workflow_name \in {"wf", "missing"}, trigger_data \in TriggerData :
           Trigger(1, workflow_name, trigger_data)
    \/ Step(1)
    \/ Complete(1)
    \/ Save(1)
    \/ SaveFails(1)

SpecDefs == InitDefs /\ [][NextDefs]_vars

(***************************************************************************)
(* The functions of the engine called on their own: the arguments are      *)
(* drawn by the initial state, the call leaves its outcome in returned.    *)
(***************************************************************************)
\* the state of the engine and of its runs
engine == <<files, workflows, executions, db, now, restarts, pc, execution,
            workflow_def, context, idx, trace, reply, loading, before>>

\* sep.join(parts)
RECURSIVE Join(_, _)
Join(parts, sep) ==
    IF parts = <<>> THEN ""
    ELSE IF Len(parts) = 1 THEN Head(parts)
    ELSE Head(parts) \o sep \o Join(Tail(parts), sep)

\* the path segments of the placeholders
Segments == {"trigger_data", "execution_results", "content", "step1", "nonexistent"}

\* the paths of one to MaxPath segments
Paths == UNION {[1..n -> Segments] : n \in 1..MaxPath}

\* a parameter mapping whose one value is the placeholder of the path
PlaceholderParams(path) ==
    VDict(<<Item("value", VStr("${" \o Join(path, ".") \o "}"))>>)

\* the contexts the placeholders are resolved in: a run whose first step
\* has succeeded, and a run no step of which has
ResolveContexts ==
    {VDict(<<Item("trigger_data", VDict(<<Item("content", VStr("hello"))>>)),
             Item("execution_results",
                  VDict(<<Item("step1", VDict(<<Item("content", VStr("a summary"))>>))>>))>>),
     VDict(<<Item("trigger_data", VDict(<<Item("content", VStr("hello"))>>)),
             Item("execution_results", EmptyDict)>>)}

ResolveCalls ==
    {[fn |-> "resolve_parameters", a |-> PlaceholderParams(path), b |-> ctx] :
        path \in Paths, ctx \in ResolveContexts}

\* the predicates FIELD LIKE 'pattern' of the calls of match_conditions
LikeFields == {"content", "subject"}

LikePatterns == {"%urgent%", "urgent", "pay%due", "%", "%x%", "u%t", "%.%"}

LikeCondition(field, pattern) == field \o " LIKE '" \o pattern \o "'"

\* the data of the calls of match_conditions
MatchData ==
    {VDict(<<Item("content", VStr("URGENT payment overdue"))>>),
     VDict(<<Item("content", VStr("hello"))>>),
     VDict(<<Item("content", VStr("Please pay now\nor it is overdue"))>>),
     VDict(<<Item("content", None)>>),
     VDict(<<Item("status", VStr("open"))>>),
     VDict(<<Item("status", VStr("closed"))>>),
     VDict(<<Item("status", VInt(1))>>),
     VDict(<<Item("category", VStr("spam"))>>),
     EmptyDict}

LikeCalls ==
    {[fn |-> "match_conditions", a |-> StrList(<<LikeCondition(field, pattern)>>),
      b |-> data] : field \in LikeFields, pattern \in LikePatterns, data \in MatchData}

\* the predicates FIELD IN (v1, v2, ...) of the calls of match_conditions,
\* each literal as it is written between the commas
InFields == {"status", "category"}

InLists ==
    {<<"'open'", " 'pending'">>,
     <<"open", "pending">>,
     <<" \"open\" ", " 1">>,
     <<"'LIKELY'", " 'spam'">>}

InCondition(field, literals) == field \o " IN (" \o Join(literals, ",") \o ")"

InCalls ==
    {[fn |-> "match_conditions", a |-> StrList(<<InCondition(field, literals)>>),
      b |-> data] : field \in InFields, literals \in InLists, data \in MatchData}

\* condition texts of neither form
MalformedConditions ==
    {"priority = high", "urgent", "status in ('open')", "status == 'open'",
     "content LIKE urgent", "status IN open"}

MalformedCalls ==
    {[fn |-> "match_conditions", a |-> StrList(<<condition>>), b |-> data] :
        condition \in MalformedConditions, data \in MatchData}

\* the contents and the keyword lists of the calls of ai_classify_urgency
ClassifyContents == {"URGENT payment overdue", "Overdue!", "hello", ""}

Keywords == {"urgent", "Overdue", "pay", "asap"}

KeywordLists == UNION {[1..n -> Keywords] : n \in 0..MaxKeywords}

ClassifyParams(content, keywords) ==
    VDict(<<Item("content", VStr(content)), Item("keywords", StrList(keywords))>>)

ClassifyCalls ==
    {[fn |-> "ai_classify_urgency", a |-> ClassifyParams(content, keywords),
      b |-> EmptyDict] : content \in ClassifyContents, keywords \in KeywordLists}

Calls == ResolveCalls \cup LikeCalls \cup InCalls \cup MalformedCalls \cup ClassifyCalls

InitCalls ==
    /\ files = Directory
    /\ \E order \in GlobOrders(files) : workflows = load_workflows(EmptyTable, files, order)
    /\ executions = EmptyTable
    /\ db = EmptyTable
    /\ now = 0
    /\ restarts = 0
    /\ pc = [r \in Runs |-> "idle"]
    /\ execution = [r \in Runs |-> None]
    /\ workflow_def = [r \in Runs |-> None]
    /\ context = [r \in Runs |-> None]
    /\ idx = [r \in Runs |-> 0]
    /\ trace = [r \in Runs |-> <<>>]
    /\ reply = [r \in Runs |-> None]
    /\ call \in Calls
    /\ returned = None
    /\ loading = <<>>
    /\ before = EmptyTable

\* resolve_parameters(params, context)
CallResolveParameters ==
    /\ call.fn = "resolve_parameters"
    /\ returned = None
    /\ returned' = resolve_parameters(call.a, call.b)
    /\ UNCHANGED <<engine, call>>

\* what a call of match_conditions gives its caller: re.match gives None on
\* a text that does not match, and None has no groups
match_conditions_outcome(r) ==
    IF r = "raise" THEN Raise("'NoneType' object has no attribute 'groups'")
    ELSE Return(VBool(r = "true"))

\* match_conditions(conditions, data)
CallMatchConditions ==
    /\ call.fn = "match_conditions"
    /\ returned = None
    /\ returned' = match_conditions_outcome(
                       match_conditions([i \in 1..Len(call.a.l) |-> call.a.l[i].s], call.b))
    /\ UNCHANGED <<engine, call>>

\* execute_ai_tool("ai_classify_urgency", params, context)
CallClassifyUrgency ==
    /\ call.fn = "ai_classify_urgency"
    /\ returned = None
    /\ returned' = execute_ai_tool(call.fn, call.a, call.b)
    /\ UNCHANGED <<engine, call>>

NextCalls ==
    \/ CallResolveParameters
    \/ CallMatchConditions
    \/ CallClassifyUrgency

SpecCalls == InitCalls /\ [][NextCalls]_vars

(***************************************************************************)
(* A reload of the definition table with lookups in between.  Spec takes   *)
(* the tool calls one at a time; here a lookup of a name (line 127) may    *)
(* fall between two passes of the loop of load_workflows that              *)
(* create_workflow_definition started, as it can when the server runs the  *)
(* calls on threads.  A store into a dict and a lookup in a dict are each  *)
(* one step of the interpreter.                                            *)
(***************************************************************************)
\* the characters of the keys of the model, in the order of their codes
KeyChars == "_abcdefghijklmnopqrstuvwxyz"

CharRank(c) == CHOOSE i \in 1..Len(KeyChars) : CharAt(KeyChars, i) = c

\* a < b for two keys
RECURSIVE StrLess(_, _)
StrLess(a, b) ==
    IF a = "" THEN b # ""
    ELSE IF b = "" THEN FALSE
    ELSE IF CharAt(a, 1) = CharAt(b, 1) THEN StrLess(Tail(a), Tail(b))
    ELSE CharRank(CharAt(a, 1)) < CharRank(CharAt(b, 1))

\* the items whose key is below k (or not below k), in their order
RECURSIVE SelectSeqLess(_, _, _)
SelectSeqLess(items, k, below) ==
    IF items = <<>> THEN <<>>
    ELSE (IF StrLess(Head(items).k, k) = below THEN <<Head(items)>> ELSE <<>>)
             \o SelectSeqLess(Tail(items), k, below)

\* the items in the order of their keys
RECURSIVE SortItems(_)
SortItems(items) ==
    IF items = <<>> THEN <<>>
    ELSE CHOOSE val \in
             {SelectSeqLess(rest, Head(items).k, TRUE) \o <<Head(items)>>
                  \o SelectSeqLess(rest, Head(items).k, FALSE) :
                 rest \in {SortItems(Tail(items))}} : TRUE

\* yaml.safe_load of what yaml.dump(definition, f, default_flow_style=False)
\* wrote: yaml.dump writes the keys of a mapping in sorted order.  The
\* texts of the model are none that YAML reads as a number, a boolean or null.
RECURSIVE yaml_dump_load(_)
yaml_dump_load(v) ==
    CASE v.t = "dict" ->
             VDict(SortItems([i \in 1..Len(v.items) |->
                                 Item(v.items[i].k, yaml_dump_load(v.items[i].v))]))
      [] v.t = "list" -> VList([i \in 1..Len(v.l) |-> yaml_dump_load(v.l[i])])
      [] OTHER -> v

\* the arguments of the calls of create_workflow_definition
CreateNames == {"notify", "extra"}

LogStep == StepDef("log", "workflow_log", EmptyDict, <<>>)

NewDefinitions ==
    {UnnamedWorkflowDef(<<LogStep>>),
     VDict(<<Item("steps", VList(<<LogStep, LogStep, LogStep>>)),
             Item("name", VStr("Urgent Triage"))>>)}

\* the workflow names looked up
LookupNames == {"Urgent Triage", "notify", "extra", "missing"}

\* create_workflow_definition(name, definition) up to the start of the loop
\* of load_workflows (lines 481-488, 78-80): the file is written and closed,
\* then the directory is listed
CreateWorkflowDefinition(name, definition) ==
    /\ call = None
    /\ call' = [fn |-> "create_workflow_definition", a |-> VStr(name), b |-> definition]
    /\ files' = (name :> yaml_dump_load(definition)) @@ files
    /\ before' = workflows
    /\ \E order \in GlobOrders(files') : loading' = order
    /\ UNCHANGED <<workflows, executions, db, now, restarts, pc, execution,
                   workflow_def, context, idx, trace, reply, returned>>

\* one pass of the loop of load_workflows (lines 80-88)
LoadFile ==
    /\ call # None
    /\ loading # <<>>
    /\ workflows' = load_file(workflows, files, Head(loading))
    /\ loading' = Tail(loading)
    /\ UNCHANGED <<files, executions, db, now, restarts, pc, execution,
                   workflow_def, context, idx, trace, reply, call, returned, before>>

\* load_workflows is at its end and create_workflow_definition returns
\* (lines 490-496)
CreateReturns ==
    /\ call # None
    /\ loading = <<>>
    /\ call' = None
    /\ UNCHANGED <<engine, returned>>

\* workflow_def = self.workflows[workflow_name] (line 127), and whether a
\* load_workflows was between two files then
Lookup(workflow_name) ==
    /\ returned' = [name |-> workflow_name,
                    reloading |-> loading # <<>>,
                    out |-> IF workflow_name \in DOMAIN workflows
                            THEN Return(workflows[workflow_name])
                            ELSE Raise("'" \o workflow_name \o "'")]
    /\ UNCHANGED <<engine, call>>

\* the array list_workflows serialises (lines 412-419), as the set of its
\* entries: one entry for each name of the table
list_workflows(table) ==
    {[name |-> name,
      description |-> DictGet(table[name], "description", VStr("")),
      triggers |-> DictGet(table[name], "triggers", VList(<<>>)),
      steps_count |-> Len(StepsOf(table[name]))] : name \in DOMAIN table}

\* list_workflows() reads the table, and whether a load_workflows was
\* between two files then
ListWorkflows ==
    /\ returned' = [name |-> "",
                    reloading |-> loading # <<>>,
                    out |-> Return(list_workflows(workflows))]
    /\ UNCHANGED <<engine, call>>

NextReload ==
    \/ \E name \in CreateNames, definition \in NewDefinitions :
           CreateWorkflowDefinition(name, definition)
    \/ LoadFile
    \/ CreateReturns
    \/ \E workflow_name \in LookupNames : Lookup(workflow_name)
    \/ ListWorkflows

SpecReload == Init /\ [][NextReload]_vars

(***************************************************************************)
(* A run with a reload in between: the passes of the step loop of one run  *)
(* and the passes of the load_workflows that create_workflow_definition    *)
(* started, in any order                                                   *)
(***************************************************************************)
NextRunReload ==
    \/ \E workflow_name \in {"notify", "Urgent Triage"}, trigger_data \in TriggerData :
           Trigger(1, workflow_name, trigger_data)
    \/ Step(1)
    \/ Complete(1)
    \/ Save(1)
    \/ \E name \in CreateNames, definition \in NewDefinitions :
           CreateWorkflowDefinition(name, definition)
    \/ LoadFile
    \/ CreateReturns

SpecRunReload == Init /\ [][NextRunReload]_vars

(***************************************************************************)
(* load_workflows on its own, as WorkflowEngine() calls it on an empty     *)
(* table (lines 54-57), over the directories of at most MaxFiles files     *)
(***************************************************************************)
StemList == <<"alpha", "beta", "gamma", "delta", "epsilon">>

\* what a definition file can hold: a definition with a name field, one
\* without, a text that is not YAML, an empty file (safe_load gives None)
\* and a YAML list
FileContents ==
    {WorkflowDef("Urgent Triage", <<LogStep>>),
     WorkflowDef("alpha", <<LogStep, LogStep>>),
     UnnamedWorkflowDef(<<LogStep>>),
     InvalidYaml,
     None,
     VList(<<LogStep>>)}

Directories ==
    UNION {[{StemList[i] : i \in 1..n} -> FileContents] : n \in 1..MaxFiles}

\* line 57: the loop of load_workflows is about to start, the directory
\* listed in the order call.a
InitLoad ==
    /\ files \in Directories
    /\ workflows = EmptyTable
    /\ executions = EmptyTable
    /\ db = EmptyTable
    /\ now = 0
    /\ restarts = 0
    /\ pc = [r \in Runs |-> "idle"]
    /\ execution = [r \in Runs |-> None]
    /\ workflow_def = [r \in Runs |-> None]
    /\ context = [r \in Runs |-> None]
    /\ idx = [r \in Runs |-> 0]
    /\ trace = [r \in Runs |-> <<>>]
    /\ reply = [r \in Runs |-> None]
    /\ loading \in GlobOrders(files)
    /\ call = [fn |-> "WorkflowEngine", a |-> loading, b |-> None]
    /\ returned = None
    /\ before = EmptyTable

NextLoad ==
    \/ LoadFile

SpecLoad == InitLoad /\ [][NextLoad]_vars

(***************************************************************************)
(* get_workflow_execution: the result it serialises, from the execution    *)
(* table when the id is there, else from the database                      *)
(***************************************************************************)
get_workflow_execution(execution_id) ==
    IF execution_id \in DOMAIN executions
    THEN LET e == execution[executions[execution_id]]
         IN  VDict(<<Item("execution_id", VStr(e.execution_id)),
                     Item("workflow_name", VStr(e.workflow_name)),
                     Item("status", VStr(e.status)),
                     Item("started_at", VStr(e.started_at)),
                     Item("completed_at", e.completed_at),
                     Item("steps", steps_as_dicts(e))>>)
    ELSE IF execution_id \in DOMAIN db
    THEN LET row == db[execution_id]
         IN  VDict(<<Item("execution_id", VStr(row.execution_id)),
                     Item("workflow_name", VStr(row.workflow_name)),
                     Item("trigger_event", VStr(row.trigger_event)),
                     Item("trigger_data", row.trigger_data),
                     Item("status", VStr(row.status)),
                     Item("started_at", VStr(row.started_at)),
                     Item("completed_at", row.completed_at),
                     Item("steps_completed", json_loads(row.steps_completed)),
                     Item("created_at", VStr(row.created_at))>>)
    ELSE VDict(<<Item("error", VStr("Execution not found"))>>)

(***************************************************************************)
(* Properties                                                              *)
(***************************************************************************)
Started(r) == pc[r] # "idle"

\* the run is past its step loop
Finished(r) == pc[r] \in {"save", "done"}

\* the lookup of the definition succeeded
Found(r) == Started(r) /\ workflow_def[r] # None

DeclaredSteps(r) == StepsOf(workflow_def[r])

DeclaredName(r, i) == DictGet(DeclaredSteps(r)[i], "name", None)

\* a condition of some step of the run raised
CondRaised(r) == \E k \in 1..Len(trace[r]) : trace[r][k].cond = "raise"

\* pass k of the run called a tool that raised
ToolFailed(r, k) == trace[r][k].invoked /\ ~trace[r][k].tool_ok

\* the place in steps_completed of the StepResult of pass k, when the
\* executor records one for each tool it calls
PlaceOf(r, k) == Cardinality({i \in 1..k : trace[r][i].invoked})

\* a StepResult of step k is recorded at its place
Recorded(r, k) ==
    /\ PlaceOf(r, k) <= Len(execution[r].steps_completed)
    /\ execution[r].steps_completed[PlaceOf(r, k)].step_name = DeclaredName(r, k)
    /\ execution[r].steps_completed[PlaceOf(r, k)].success = trace[r][k].tool_ok

\* C1: when the tool of step k raises, a failed StepResult is recorded for
\* it and the loop goes on: every later step is processed, its tool invoked
\* and its StepResult recorded when its conditions hold, unless the run is
\* still in the loop or a condition of a later step raised.
C1_PartialFailureTolerance ==
    \A r \in Runs : \A k \in 1..Len(trace[r]) :
        ToolFailed(r, k) =>
            /\ Recorded(r, k)
            /\ \A j \in (k + 1)..Len(DeclaredSteps(r)) :
                   IF j <= Len(trace[r])
                   THEN trace[r][j].cond = "true" =>
                            trace[r][j].invoked /\ Recorded(r, j)
                   ELSE \/ pc[r] = "steps" /\ idx[r] = Len(trace[r]) + 1
                        \/ Len(trace[r]) > k /\ trace[r][Len(trace[r])].cond = "raise"

\* a finished run of three steps whose second tool raised and whose third
\* step ran and succeeded
C1_Witness ==
    \E r \in Runs :
        /\ pc[r] = "done"
        /\ Len(trace[r]) = 3
        /\ ToolFailed(r, 2)
        /\ trace[r][3].invoked /\ trace[r][3].tool_ok
        /\ Len(execution[r].steps_completed) = 3
        /\ execution[r].steps_completed[3].success
        /\ execution[r].status = "completed"

\* every step of the run passed its conditions and every tool returned
AllStepsSucceeded(r) ==
    /\ Found(r)
    /\ Len(trace[r]) = Len(DeclaredSteps(r))
    /\ \A k \in 1..Len(trace[r]) : trace[r][k].cond = "true" /\ trace[r][k].tool_ok

\* C2: when every step passes its conditions and every tool succeeds, the
\* run holds exactly N StepResults, the i-th with the name of the i-th
\* declared step, and a finished run has status completed.
C2_AllStepsRecordedInOrder ==
    \A r \in Runs :
        AllStepsSucceeded(r) =>
            /\ Len(execution[r].steps_completed) = Len(DeclaredSteps(r))
            /\ \A i \in 1..Len(DeclaredSteps(r)) :
                   /\ execution[r].steps_completed[i].step_name = DeclaredName(r, i)
                   /\ execution[r].steps_completed[i].success
            /\ Finished(r) => execution[r].status = "completed"

C2_Witness ==
    \E r \in Runs :
        /\ pc[r] = "done"
        /\ AllStepsSucceeded(r)
        /\ Len(DeclaredSteps(r)) = 3
        /\ Len(execution[r].steps_completed) = 3

\* C3: a step whose conditions are false gets no StepResult, its tool is not
\* invoked, the context gets no entry for it, and the loop goes on to the
\* next step (the step names of a definition are distinct).
C3_SkippedStepLeavesNoTrace ==
    \A r \in Runs : \A k \in 1..Len(trace[r]) :
        trace[r][k].cond = "false" =>
            /\ ~trace[r][k].invoked
            /\ \A i \in 1..Len(execution[r].steps_completed) :
                   execution[r].steps_completed[i].step_name # DeclaredName(r, k)
            /\ ~HasKey(DictGet(context[r], "execution_results", EmptyDict),
                       DeclaredName(r, k).s)
            /\ Len(execution[r].steps_completed) =
                   Cardinality({i \in 1..Len(trace[r]) : trace[r][i].cond = "true"})
            /\ \/ pc[r] = "steps" /\ idx[r] > k
               \/ Finished(r) /\ (Len(trace[r]) = Len(DeclaredSteps(r)) \/ CondRaised(r))

\* a finished run that skipped a step and ran the next one
C3_Witness ==
    \E r \in Runs : \E k \in 1..Len(trace[r]) :
        /\ pc[r] = "done"
        /\ trace[r][k].cond = "false"
        /\ k < Len(trace[r])
        /\ trace[r][k + 1].invoked
        /\ Len(execution[r].steps_completed) < Len(DeclaredSteps(r))

\* C4: a finished run whose definition was found and whose loop ran to its
\* end is completed whatever its steps did; a failed run is one whose
\* definition was not found or one a condition of which raised.
C4_OnlyEngineErrorsFailTheRun ==
    \A r \in Runs :
        Finished(r) =>
            /\ execution[r].status \in {"completed", "failed"}
            /\ (Found(r) /\ Len(trace[r]) = Len(DeclaredSteps(r)) /\ ~CondRaised(r))
                   => execution[r].status = "completed"
            /\ execution[r].status = "failed" => (~Found(r) \/ CondRaised(r))

\* a completed run all of whose steps (two at least) failed
C4_Witness ==
    \E r \in Runs :
        /\ pc[r] = "done"
        /\ execution[r].status = "completed"
        /\ Len(execution[r].steps_completed) >= 2
        /\ \A i \in 1..Len(execution[r].steps_completed) :
               ~execution[r].steps_completed[i].success

\* C5: execute_workflow with a name that is not in the definition table
\* leaves the execution failed, without steps, with a completion timestamp
\* and without having called a tool, and nothing changes it before it is
\* returned.
C5_UnknownWorkflowFails ==
    [][\A r \in Runs :
          /\ (pc[r] = "idle" /\ pc'[r] # "idle"
                /\ execution'[r].workflow_name \notin DOMAIN workflows)
               => /\ execution'[r].status = "failed"
                  /\ execution'[r].steps_completed = <<>>
                  /\ execution'[r].completed_at # None
                  /\ trace'[r] = <<>>
                  /\ workflow_def'[r] = None
                  /\ pc'[r] = "save"
          /\ (pc[r] = "save" /\ workflow_def[r] = None)
               => /\ execution'[r] = execution[r]
                  /\ trace'[r] = trace[r]]_vars

C5_Witness ==
    \E r \in Runs :
        /\ pc[r] = "done"
        /\ execution[r].workflow_name = "missing"
        /\ execution[r].status = "failed"
        /\ execution[r].steps_completed = <<>>

\* the result trigger_workflow gave
ReplyOf(r) == reply[r].result

\* C6: trigger_workflow with a name that is not in the table gives a result
\* whose success flag is false and that carries an error message.
C6_UnknownWorkflowIsReportedAsFailure ==
    \A r \in Runs :
        (pc[r] = "done" /\ ~Found(r) /\ reply[r].ok) =>
            /\ DictGet(ReplyOf(r), "success", None) = VBool(FALSE)
            /\ HasKey(ReplyOf(r), "error")

\* C7: whatever fails inside the engine, trigger_workflow returns a
\* structured result and no exception leaves it.
C7_TriggerAlwaysReturnsAResult ==
    \A r \in Runs :
        pc[r] = "done" =>
            /\ reply[r].ok
            /\ IsDict(ReplyOf(r))
            /\ DictGet(ReplyOf(r), "success", None).t = "bool"
            /\ DictGet(ReplyOf(r), "workflow_name", None) = VStr(execution[r].workflow_name)

\* a run a condition of which raised, and whose write to the database failed
C7_Witness ==
    \E r \in Runs :
        /\ pc[r] = "done"
        /\ CondRaised(r)
        /\ execution[r].execution_id \notin DOMAIN db
        /\ reply[r].ok

\* C8: when the write to the database failed (the id of the run is not in
\* it), trigger_workflow still gives the execution id, the status and the
\* step count of the run.
C8_ResultSurvivesPersistenceFailure ==
    \A r \in Runs :
        (pc[r] = "done" /\ reply[r].ok /\ execution[r].execution_id \notin DOMAIN db) =>
            /\ DictGet(ReplyOf(r), "execution_id", None) = VStr(execution[r].execution_id)
            /\ DictGet(ReplyOf(r), "status", None) = VStr(execution[r].status)
            /\ DictGet(ReplyOf(r), "steps_completed", None)
                   = VInt(Len(execution[r].steps_completed))

\* C9: no two runs get the same execution id.
C9_ExecutionIdsAreUnique ==
    \A r1, r2 \in Runs :
        (Started(r1) /\ Started(r2) /\ r1 # r2) =>
            execution[r1].execution_id # execution[r2].execution_id

\* the step list of a result of get_workflow_execution
StepsRead(g) ==
    IF HasKey(g, "steps") THEN DictGet(g, "steps", None).l
    ELSE DictGet(g, "steps_completed", VList(<<>>)).l

\* the run was saved by save_execution
Saved(r) ==
    /\ pc[r] = "done"
    /\ reply[r].ok
    /\ DictGet(ReplyOf(r), "success", None) = VBool(TRUE)

\* a result of get_workflow_execution shows the status, the step count and
\* the success flags of the execution
SameRecord(g, e) ==
    /\ DictGet(g, "status", None) = VStr(e.status)
    /\ Len(StepsRead(g)) = Len(e.steps_completed)
    /\ \A i \in 1..Len(e.steps_completed) :
           i <= Len(StepsRead(g)) =>
               DictGet(StepsRead(g)[i], "success", None) = VBool(e.steps_completed[i].success)

\* C10: reading a saved execution back by its id, between two calls, gives
\* its status, its step count and its success flags.
C10_HistoryRoundTrip ==
    \A r \in Runs :
        (NoCallInFlight /\ Saved(r)) => SameRecord(get_workflow_execution(execution[r].execution_id),
                               execution[r])

\* the value a path leads to in a context, the empty string when a segment
\* of the path is missing
RECURSIVE LenientLookup(_, _)
LenientLookup(v, parts) ==
    IF parts = <<>> THEN v
    ELSE IF IsDict(v) /\ HasKey(v, Head(parts))
    THEN LenientLookup(DictGet(v, Head(parts), None), Tail(parts))
    ELSE VStr("")

\* C11: resolve_parameters raises for no placeholder; it resolves a
\* placeholder to the value its path leads to in the context, and to the
\* empty string when a segment of the path is missing, whatever the number
\* of segments.
C11_LenientLookupAtEveryDepth ==
    \A path \in Paths :
        (call.fn = "resolve_parameters" /\ call.a = PlaceholderParams(path)
            /\ returned # None) =>
            /\ returned.ok
            /\ DictGet(returned.result, "value", None) = LenientLookup(call.b, path)

\* context["execution_results"] of the run
ExecutionResults(r) == DictGet(context[r], "execution_results", EmptyDict)

\* the result recorded for pass k of the run
ResultOf(r, k) == execution[r].steps_completed[PlaceOf(r, k)].result

\* the placeholder that refers to the entry key of the result of step S
ResultPlaceholder(S, key) == VStr("${execution_results." \o S \o "." \o key \o "}")

\* pass j of the run called crm_create_task with the placeholder as its title
TitleFrom(r, j, placeholder) ==
    /\ trace[r][j].invoked
    /\ DictGet(DeclaredSteps(r)[j], "tool", None) = VStr("crm_create_task")
    /\ DictGet(DictGet(DeclaredSteps(r)[j], "params", EmptyDict), "title", None) = placeholder

\* C12: once step k has succeeded with result R, the context holds R under
\* the name of the step, a placeholder that refers to an entry of R resolves
\* to the value of that entry, and a later step called with such a
\* placeholder as a parameter receives that value.
C12_ResultVisibleToLaterSteps ==
    \A r \in Runs : \A k \in 1..Len(trace[r]) :
        trace[r][k].tool_ok =>
            /\ Recorded(r, k)
            /\ DictGet(ExecutionResults(r), DeclaredName(r, k).s, None) = ResultOf(r, k)
            /\ \A i \in 1..Len(ResultOf(r, k).items) :
                   /\ resolve_value(ResultPlaceholder(DeclaredName(r, k).s,
                                                     ResultOf(r, k).items[i].k),
                                    context[r])
                        = Return(ResultOf(r, k).items[i].v)
                   /\ \A j \in (k + 1)..Len(trace[r]) :
                          TitleFrom(r, j, ResultPlaceholder(DeclaredName(r, k).s,
                                                            ResultOf(r, k).items[i].k))
                              => /\ trace[r][j].tool_ok
                                 /\ DictGet(ResultOf(r, j), "title", None)
                                        = ResultOf(r, k).items[i].v

\* a finished run whose first step gave a summary and a later step of which
\* created a task with that summary as its title
C12_Witness ==
    \E r \in Runs : \E j \in 2..Len(trace[r]) :
        /\ pc[r] = "done"
        /\ trace[r][1].tool_ok
        /\ HasKey(ResultOf(r, 1), "summary")
        /\ TitleFrom(r, j, ResultPlaceholder("step1", "summary"))
        /\ DictGet(ResultOf(r, j), "title", None) = VStr(SummaryText)

\* the pass the run has just made is a call of a tool that raised
JustFailed(r) ==
    /\ Len(trace'[r]) = Len(trace[r]) + 1
    /\ trace'[r][Len(trace'[r])].invoked
    /\ ~trace'[r][Len(trace'[r])].tool_ok

\* C13: a pass whose tool raises appends one StepResult, with success false
\* and the message of the error, leaves the context as it was, and moves on
\* to the next step.
C13_FailedStepLeavesContextUnchanged ==
    [][\A r \in Runs :
          JustFailed(r) =>
              /\ context'[r] = context[r]
              /\ Len(execution'[r].steps_completed) = Len(execution[r].steps_completed) + 1
              /\ SubSeq(execution'[r].steps_completed, 1, Len(execution[r].steps_completed))
                     = execution[r].steps_completed
              /\ ~execution'[r].steps_completed[Len(execution'[r].steps_completed)].success
              /\ execution'[r].steps_completed[Len(execution'[r].steps_completed)].step_name
                     = DeclaredName(r, Len(trace'[r]))
              /\ IsStr(execution'[r].steps_completed[Len(execution'[r].steps_completed)].error)
              /\ execution'[r].steps_completed[Len(execution'[r].steps_completed)].result = None
              /\ idx'[r] = idx[r] + 1
              /\ pc'[r] = "steps"]_vars

\* a finished run a step of which failed, with no entry in the context, and
\* a later step of which ran
C13_Witness ==
    \E r \in Runs : \E k \in 1..Len(trace[r]) :
        /\ pc[r] = "done"
        /\ ToolFailed(r, k)
        /\ ~HasKey(ExecutionResults(r), DeclaredName(r, k).s)
        /\ k < Len(trace[r])
        /\ trace[r][Len(trace[r])].tool_ok

\* C14: the conditions of a step are evaluated on the fields of the trigger
\* data of the run: each pass gives what match_conditions gives on the
\* trigger data, the step is executed when they hold and skipped when not.
C14_GuardsReadTriggerDataFields ==
    \A r \in Runs : \A k \in 1..Len(trace[r]) :
        /\ trace[r][k].cond
               = conditions_hold(ConditionsOf(DeclaredSteps(r)[k]), execution[r].trigger_data)
        /\ trace[r][k].invoked = (trace[r][k].cond = "true")

\* the least position from i on where sub occurs in s, 0 when there is none
FindFrom(s, sub, i) ==
    IF \E j \in i..(Len(s) - Len(sub) + 1) : Slice(s, j, j + Len(sub) - 1) = sub
    THEN CHOOSE j \in i..(Len(s) - Len(sub) + 1) :
             /\ Slice(s, j, j + Len(sub) - 1) = sub
             /\ \A h \in i..(j - 1) : Slice(s, h, h + Len(sub) - 1) # sub
    ELSE 0

\* the texts occur in s from position i on, one after the other
RECURSIVE OccurInOrder(_, _, _)
OccurInOrder(texts, s, i) ==
    IF texts = <<>> THEN TRUE
    ELSE IF Head(texts) = "" THEN OccurInOrder(Tail(texts), s, i)
    ELSE \E j \in {FindFrom(s, Head(texts), i)} :
             j # 0 /\ OccurInOrder(Tail(texts), s, j + Len(Head(texts)))

\* a part of the value matches the pattern, % standing for any sequence of
\* characters, letters compared without case
LikeMatches(pattern, value) ==
    OccurInOrder(Split(Lower(pattern), "%"), Lower(value), 1)

\* C15: match_conditions on FIELD LIKE 'pattern' returns true exactly when
\* the text of the value of FIELD (the empty text when FIELD is absent)
\* matches the pattern, % standing for any sequence of characters and
\* letters compared without case, and false otherwise.
C15_LikeIsWildcardMatch ==
    \A field \in LikeFields, pattern \in LikePatterns :
        (call.fn = "match_conditions"
            /\ call.a = StrList(<<LikeCondition(field, pattern)>>)
            /\ returned # None) =>
            returned = Return(VBool(LikeMatches(pattern,
                                                PyStr(DictGet(call.b, field, VStr(""))))))

\* a literal of an IN list after whitespace and quote stripping
Literal(written) == Strip(Strip(written, SpaceChars), {"'", "\""})

\* the value is a text equal to one of the literals
EqualsALiteral(v, literals) ==
    IsStr(v) /\ \E i \in 1..Len(literals) : v.s = Literal(literals[i])

\* C16: match_conditions on FIELD IN (v1, v2, ...) returns true exactly when
\* the value of FIELD in the data, compared as it is, equals one of the
\* literals after whitespace and quote stripping; an absent field and a
\* value equal to none of the literals give false.
C16_InIsMembership ==
    \A field \in InFields, literals \in InLists :
        (call.fn = "match_conditions"
            /\ call.a = StrList(<<InCondition(field, literals)>>)
            /\ returned # None) =>
            returned = Return(VBool(/\ HasKey(call.b, field)
                                    /\ EqualsALiteral(DictGet(call.b, field, None),
                                                      literals)))

\* C17: a condition text of neither the LIKE nor the IN form makes
\* match_conditions fail with an error; it is never taken as true or false.
C17_MalformedConditionRaises ==
    \A condition \in MalformedConditions :
        (call.fn = "match_conditions"
            /\ call.a = StrList(<<condition>>)
            /\ returned # None) =>
            ~returned.ok

\* the tool identifier has one of the namespaces of the dispatcher
Recognised(tool) ==
    \/ \E prefix \in {"ai_", "crm_", "vision_", "quickbooks_"} : StartsWith(tool, prefix)
    \/ tool = "workflow_log"

DeclaredTool(r, k) == DictGet(DeclaredSteps(r)[k], "tool", None)

\* the tool of pass k was called and its identifier has no known namespace
UnknownToolCalled(r, k) ==
    /\ trace[r][k].invoked
    /\ IsStr(DeclaredTool(r, k))
    /\ ~Recognised(DeclaredTool(r, k).s)

\* C18: a step whose tool identifier has none of the namespaces ai_, crm_,
\* vision_, quickbooks_ and is not workflow_log raises "Unknown tool: <id>";
\* a failed StepResult with this error is recorded for this step, the
\* StepResults of the other steps are what their own tools gave, the later
\* steps are processed, and a run whose loop ran to its end is completed.
C18_UnknownToolFailsItsStepOnly ==
    \A r \in Runs : \A k \in 1..Len(trace[r]) :
        UnknownToolCalled(r, k) =>
            /\ ~trace[r][k].tool_ok
            /\ Recorded(r, k)
            /\ ~execution[r].steps_completed[PlaceOf(r, k)].success
            /\ execution[r].steps_completed[PlaceOf(r, k)].error
                   = VStr("Unknown tool: " \o DeclaredTool(r, k).s)
            /\ \A j \in 1..Len(trace[r]) : trace[r][j].invoked => Recorded(r, j)
            /\ \/ pc[r] = "steps" /\ idx[r] = Len(trace[r]) + 1
               \/ Finished(r) /\ (Len(trace[r]) = Len(DeclaredSteps(r)) \/ CondRaised(r))
            /\ (Finished(r) /\ Len(trace[r]) = Len(DeclaredSteps(r)) /\ ~CondRaised(r))
                   => execution[r].status = "completed"

\* a completed run of three steps whose second step named an unknown tool
\* and whose first and third steps succeeded
C18_Witness ==
    \E r \in Runs :
        /\ pc[r] = "done"
        /\ Len(trace[r]) = 3
        /\ UnknownToolCalled(r, 2)
        /\ trace[r][1].tool_ok /\ trace[r][3].tool_ok
        /\ Len(execution[r].steps_completed) = 3
        /\ ~execution[r].steps_completed[2].success
        /\ execution[r].steps_completed[3].success
        /\ execution[r].status = "completed"

\* the number of keywords of the list that occur in the content, letters
\* compared without case, a keyword written twice counted twice
Hits(content, keywords) ==
    Cardinality({i \in 1..Len(keywords) : Contains(Lower(content), Lower(keywords[i]))})

\* the tier of a number of hits
Tier(n) == CASE n = 0 -> "normal" [] n = 1 -> "high" [] OTHER -> "urgent"

\* C19: ai_classify_urgency counts the keywords of the list that occur in
\* the content without regard to case and returns the tier of this count
\* alone (0 normal, 1 high, 2 or more urgent) with urgency_score the count.
C19_TierFromHitCount ==
    \A content \in ClassifyContents, keywords \in KeywordLists :
        (call.fn = "ai_classify_urgency"
            /\ call.a = ClassifyParams(content, keywords)
            /\ returned # None) =>
            returned = Return(VDict(<<Item("urgency_level",
                                           VStr(Tier(Hits(content, keywords)))),
                                      Item("urgency_score",
                                           VInt(Hits(content, keywords)))>>))

\* a call with two keywords, one of which occurs in the content in another
\* case, returned the tier high with the score 1
C19_Witness ==
    /\ call.fn = "ai_classify_urgency"
    /\ call.a = ClassifyParams("URGENT payment overdue", <<"asap", "Overdue">>)
    /\ returned = Return(VDict(<<Item("urgency_level", VStr("high")),
                                 Item("urgency_score", VInt(1))>>))

\* the documents a definition file of the model can hold
CompleteDefinitions ==
    {Directory[stem] : stem \in {f \in DOMAIN Directory : IsDict(Directory[f])}}
        \cup {yaml_dump_load(definition) : definition \in NewDefinitions}

\* the definitions the files of the directory declare for the name
Declared(dir, name) ==
    {dir[stem] : stem \in {f \in DOMAIN dir :
                              IsDict(dir[f]) /\ DictGet(dir[f], "name", VStr(f)).s = name}}

TableAfterReload == load_workflows(workflows, files, loading)

\* C21: a reader that falls between two passes of a reload sees the whole
\* old table or the whole new table: list_workflows gives the listing of
\* the table the reload began with or of the table the reload ends with.
C21_ReadersSeeOldOrNewTable ==
    [][(ListWorkflows /\ loading # <<>>) =>
          returned'.out.result \in {list_workflows(before),
                                    list_workflows(TableAfterReload)}]_vars

\* the names the files of the directory declare
DeclaredNames(dir) ==
    {DictGet(dir[stem], "name", VStr(stem)).s : stem \in {f \in DOMAIN dir : IsDict(dir[f])}}

\* C22: when a reload has finished, the table holds exactly the definitions
\* that parse from the files now in the directory: its names are the names
\* the files declare, each with a definition a file declares for it, so a
\* name no file declares any more is not in the table.
C22_ReloadReplacesTheTable ==
    (call = None /\ loading = <<>>) =>
        /\ DOMAIN workflows = DeclaredNames(files)
        /\ \A name \in DOMAIN workflows : workflows[name] \in Declared(files, name)

\* the name load_workflows files the definition of the file under
NameOfFile(dir, stem) == DictGet(dir[stem], "name", VStr(stem)).s

\* the files load_workflows has visited
Visited == DOMAIN files \ {loading[i] : i \in 1..Len(loading)}

\* C23: whatever files fail to parse or parse to something that is no
\* mapping, and whatever order the files are visited in, every visited file
\* that parses is in the table under its name field, or under its file name
\* when it has none (with the definition of a file that declares this
\* name), the table holds nothing else, and the load goes on to its end.
C23_ParseFailuresAreIsolated ==
    (call # None /\ call.fn = "WorkflowEngine") =>
        /\ \A stem \in Visited :
               IsDict(files[stem]) =>
                   /\ NameOfFile(files, stem) \in DOMAIN workflows
                   /\ workflows[NameOfFile(files, stem)]
                          \in Declared(files, NameOfFile(files, stem))
                   /\ Cardinality(Declared(files, NameOfFile(files, stem))) = 1
                          => workflows[NameOfFile(files, stem)] = files[stem]
        /\ DOMAIN workflows = {NameOfFile(files, stem) :
                                  stem \in {f \in Visited : IsDict(files[f])}}

\* a load that met a file that is not YAML first and an empty file last has
\* the definition of the file between them in the table, under its file name
C23_Witness ==
    /\ call # None
    /\ call.fn = "WorkflowEngine"
    /\ loading = <<>>
    /\ Len(call.a) = 3
    /\ files[call.a[1]] = InvalidYaml
    /\ files[call.a[3]] = None
    /\ IsDict(files[call.a[2]])
    /\ ~HasKey(files[call.a[2]], "name")
    /\ DOMAIN workflows = {call.a[2]}
    /\ workflows[call.a[2]] = files[call.a[2]]

\* the status of the execution is one a run ends with
Terminal(e) == e.status \in {"completed", "failed"}

\* C24: a WorkflowExecution is created running (a run whose definition is
\* not found is failed before anything else happens to it), its status is
\* running, completed or failed, a terminal status and its completion
\* timestamp never change again, and the completion timestamp is null
\* exactly while the status is running.
C24_StatusIsAThreeStateMachine ==
    [][\A r \in Runs :
          /\ (execution[r] = None /\ execution'[r] # None) =>
                 \/ execution'[r].status = "running"
                 \/ workflow_def'[r] = None /\ execution'[r].status = "failed"
          /\ execution'[r] # None =>
                 /\ execution'[r].status \in {"running", "completed", "failed"}
                 /\ (execution'[r].status = "running") = (execution'[r].completed_at = None)
          /\ execution[r] # None =>
                 /\ execution'[r] # None
                 /\ Terminal(execution[r]) =>
                        /\ execution'[r].status = execution[r].status
                        /\ execution'[r].completed_at = execution[r].completed_at]_vars

\* a run of two steps at least that was running through its steps, ended
\* with a terminal status and a completion timestamp and was saved
C24_Witness ==
    \E r \in Runs :
        /\ pc[r] = "done"
        /\ Found(r)
        /\ Len(trace[r]) >= 2
        /\ Terminal(execution[r])
        /\ execution[r].completed_at # None

\* p is the beginning of q
IsPrefix(p, q) == Len(p) <= Len(q) /\ SubSeq(q, 1, Len(p)) = p

\* C25: the list of StepResults of an execution only grows at its end, and
\* once the status is completed or failed it never changes again.
C25_StepsFrozenOnceTerminal ==
    [][\A r \in Runs :
          execution[r] # None =>
              /\ IsPrefix(execution[r].steps_completed, execution'[r].steps_completed)
              /\ Terminal(execution[r]) =>
                     execution'[r].steps_completed = execution[r].steps_completed]_vars

\* a run that recorded two StepResults at least, ended and went through
\* save_execution with them
C25_Witness ==
    \E r \in Runs :
        /\ pc[r] = "done"
        /\ Terminal(execution[r])
        /\ Len(execution[r].steps_completed) >= 2
        /\ reply[r] # None

\* the places in the declared step list of the steps with this name
DeclaredPlaces(r, step_name) ==
    {i \in 1..Len(DeclaredSteps(r)) : DeclaredName(r, i) = step_name}

\* the StepResults of the run, in their order, are results of declared
\* steps taken in the declared order, none twice
RecordedInDeclaredOrder(r) ==
    /\ \A a \in 1..Len(execution[r].steps_completed) :
           DeclaredPlaces(r, execution[r].steps_completed[a].step_name) # {}
    /\ \A a, b \in 1..Len(execution[r].steps_completed) :
           a < b => \A i \in DeclaredPlaces(r, execution[r].steps_completed[a].step_name),
                       j \in DeclaredPlaces(r, execution[r].steps_completed[b].step_name) :
                       i < j

\* the passes made so far are those of the first steps of the list, one
\* each, and each pass that called its tool has its StepResult
ProcessedInDeclaredOrder(r) ==
    /\ Len(trace[r]) <= Len(DeclaredSteps(r))
    /\ pc[r] = "steps" => idx[r] = Len(trace[r]) + 1
    /\ \A k \in 1..Len(trace[r]) : trace[r][k].invoked => Recorded(r, k)
    /\ Len(execution[r].steps_completed)
           = Cardinality({k \in 1..Len(trace[r]) : trace[r][k].invoked})

\* C26: the steps of a run are processed one after the other in the
\* declared order: when the tool of step j is invoked every step before j has
\* been skipped or has its StepResult, and whatever the steps did the
\* StepResults recorded form a subsequence of the declared steps.
C26_StepsRunInDeclaredOrder ==
    [][\A r \in Runs :
          /\ (Found(r) /\ Len(trace'[r]) > Len(trace[r])) =>
                 /\ Len(trace'[r]) = Len(trace[r]) + 1
                 /\ Len(trace'[r]) = idx[r]
                 /\ \A i \in 1..Len(trace[r]) :
                        \/ ~trace[r][i].invoked
                        \/ Recorded(r, i)
          /\ workflow_def'[r] # None =>
                 (ProcessedInDeclaredOrder(r) /\ RecordedInDeclaredOrder(r))']_vars

\* a finished run of three steps whose first step failed, whose second was
\* skipped and whose third succeeded, with the StepResults of the first and
\* the third in this order
C26_Witness ==
    \E r \in Runs :
        /\ pc[r] = "done"
        /\ Len(trace[r]) = 3
        /\ ToolFailed(r, 1)
        /\ trace[r][2].cond = "false"
        /\ trace[r][3].tool_ok
        /\ Len(execution[r].steps_completed) = 2
        /\ execution[r].steps_completed[1].step_name = DeclaredName(r, 1)
        /\ execution[r].steps_completed[2].step_name = DeclaredName(r, 3)

\* the step of run r is the return of execute_workflow to trigger_workflow
ExecuteWorkflowReturns(r) ==
    /\ pc[r] # "done"
    /\ pc'[r] = "done"
    /\ reply'[r] = trigger_workflow_result(execution[r].workflow_name, execution[r])

\* the step wrote the row of run r, a run that is at save_execution with a
\* terminal status, and nothing else
WroteRowOf(r) ==
    /\ pc[r] = "save"
    /\ pc'[r] = "done"
    /\ Terminal(execution[r])
    /\ DOMAIN db' = DOMAIN db \cup {execution[r].execution_id}
    /\ \A id \in DOMAIN db : id # execution[r].execution_id => db'[id] = db[id]
    /\ db'[execution[r].execution_id].status = execution[r].status
    /\ db'[execution[r].execution_id].completed_at = execution[r].completed_at
    /\ db'[execution[r].execution_id].steps_completed
           = json_dumps(steps_as_dicts(execution[r]))

\* C27: a run is written to the database once and only with a terminal
\* status: the database changes only by the write of a run that is at
\* save_execution, a run gets there as soon as its status is terminal (a run
\* whose workflow was not found too) and never a second time, and when
\* execute_workflow returns the row of the run has been written.
C27_SavedOnceWhenTerminal ==
    [][/\ db' # db => \E r \in Runs : WroteRowOf(r)
       /\ \A r \in Runs :
              /\ pc[r] = "done" => pc'[r] = "done"
              /\ pc'[r] = "save" => Terminal(execution'[r])
              /\ (execution'[r] # None /\ Terminal(execution'[r])) =>
                     pc'[r] \in {"save", "done"}
              /\ (pc[r] # "done" /\ pc'[r] = "done") => pc[r] = "save"
              /\ ExecuteWorkflowReturns(r) => WroteRowOf(r)]_vars

\* a run whose workflow was not found is in the database as failed
C27_Witness ==
    \E r \in Runs :
        /\ pc[r] = "done"
        /\ ~Found(r)
        /\ reply[r] = trigger_workflow_result(execution[r].workflow_name, execution[r])
        /\ execution[r].execution_id \in DOMAIN db
        /\ db[execution[r].execution_id].status = "failed"
        /\ db[execution[r].execution_id].completed_at = execution[r].completed_at

\* the definition table holds another definition for the workflow of the
\* run than the one the run looked up
DefinitionReplaced(r) ==
    /\ execution[r].workflow_name \in DOMAIN workflows
    /\ workflows[execution[r].workflow_name] # workflow_def[r]

\* C28: a run keeps the definition it looked up at its start: the
\* definition of the run never changes, each pass of the loop is that of the
\* next step of this definition, each StepResult is that of the step of
\* its pass, and a completed run has made a pass for each of its steps,
\* whatever a create_workflow_definition stores in the definition table
\* while the run is in flight.
C28_RunKeepsItsDefinition ==
    [][\A r \in Runs :
          /\ workflow_def[r] # None => workflow_def'[r] = workflow_def[r]
          /\ workflow_def'[r] # None => ProcessedInDeclaredOrder(r)'
          /\ (pc[r] = "steps" /\ pc'[r] = "save" /\ execution'[r].status = "completed")
                 => Len(trace[r]) = Len(DeclaredSteps(r))]_vars

\* a run of notify that is still in its loop, whose definition was replaced
\* in the table after it had looked it up, has made the passes of the two
\* steps it had looked up and holds their StepResults
C28_Witness ==
    /\ pc[1] = "steps"
    /\ idx[1] = 3
    /\ execution[1].workflow_name = "notify"
    /\ workflow_def[1] = Directory.notify
    /\ DefinitionReplaced(1)
    /\ Len(StepsOf(workflows["notify"])) = 1
    /\ Len(trace[1]) = 2
    /\ Len(execution[1].steps_completed) = 2
    /\ execution[1].steps_completed[2].step_name = DeclaredName(1, 2)

\* C29: when the evaluation of the conditions of step k raises, the run
\* ends failed at this step: the tool of step k is not invoked, no pass is
\* made for a later step, the StepResults are those of the steps before k
\* that called their tools and none is recorded for step k or a later
\* step, and the run goes to save_execution, which writes it as failed.
C29_ConditionErrorFailsTheRun ==
    \A r \in Runs : \A k \in 1..Len(trace[r]) :
        trace[r][k].cond = "raise" =>
            /\ ~trace[r][k].invoked
            /\ k = Len(trace[r])
            /\ Finished(r)
            /\ execution[r].status = "failed"
            /\ execution[r].completed_at # None
            /\ Len(execution[r].steps_completed)
                   = Cardinality({i \in 1..(k - 1) : trace[r][i].invoked})
            /\ \A i \in 1..(k - 1) : trace[r][i].invoked => Recorded(r, i)
            /\ \A a \in 1..Len(execution[r].steps_completed) :
                   \A j \in k..Len(DeclaredSteps(r)) :
                       execution[r].steps_completed[a].step_name # DeclaredName(r, j)
            /\ (pc[r] = "done"
                   /\ reply[r] = trigger_workflow_result(execution[r].workflow_name,
                                                         execution[r])) =>
                   /\ execution[r].execution_id \in DOMAIN db
                   /\ db[execution[r].execution_id].status = "failed"
                   /\ db[execution[r].execution_id].steps_completed
                          = json_dumps(steps_as_dicts(execution[r]))

\* a saved run of three steps whose first step succeeded and the conditions
\* of whose second step raised: failed, with the StepResult of the first
\* step alone
C29_Witness ==
    \E r \in Runs :
        /\ pc[r] = "done"
        /\ Found(r)
        /\ Len(DeclaredSteps(r)) = 3
        /\ Len(trace[r]) = 2
        /\ trace[r][1].tool_ok
        /\ trace[r][2].cond = "raise"
        /\ execution[r].status = "failed"
        /\ Len(execution[r].steps_completed) = 1
        /\ execution[r].execution_id \in DOMAIN db
        /\ db[execution[r].execution_id].status = "failed"

\* C30: when create_workflow_definition(name, definition) returns, the
\* definition table holds the new definition under the given name:
\* list_workflows has an entry of this name with the step count of the new
\* definition, and a trigger_workflow of this name finds the definition.
C30_CreatedWorkflowIsAvailableByName ==
    [][CreateReturns =>
          /\ call.a.s \in DOMAIN workflows'
          /\ workflows'[call.a.s] = yaml_dump_load(call.b)
          /\ \E entry \in list_workflows(workflows') :
                 /\ entry.name = call.a.s
                 /\ entry.steps_count = Len(StepsOf(call.b))]_vars

====
